---- MODULE Spec2Model ----
(***************************************************************************)
(* Model of the CDD validation engine of the SPU tool                      *)
(* (src/src/validator.py: ValidationResult and CDDValidator).              *)
(*                                                                         *)
(* Text is a sequence of one-character strings, so that the pattern        *)
(* matching, splitting, parsing and formatting the validator does are      *)
(* computed and not assumed.  A cell of a sheet is a                        *)
(* record [t, x10, s]: t = "nan" is a missing value (float NaN), "inf" the *)
(* float infinity, "num" the float x10/10 and "str" a text cell holding s. *)
(***************************************************************************)
EXTENDS Integers, Sequences, FiniteSets, TLC

VARIABLES
    data,       \* the TableSet handed to the constructor: sheet name -> sheet
    cfgFile,    \* the config resource: [status, content]
    attrs,      \* the attributes the validator instance has so far
    config,     \* self.config
    errors,     \* self.errors
    warnings,   \* self.warnings
    pc,         \* position of the caller / of validate()
    exc,        \* the exception that escaped to the caller, or "none"
    raisedIn,   \* the method the escaped exception left, or "none"
    ran,        \* the rule groups the current validate() call has entered
    result,     \* what the last validate() returned: [errors, warnings]
    calls,      \* number of validate() calls that returned
    returned,   \* what each validate() call returned, in the order of the calls
    other,      \* a second validator instance on the same inputs, as a record
    cli         \* the command of cli.py that drives the validator, as a record

vars == <<data, cfgFile, attrs, config, errors, warnings, pc, exc, raisedIn,
          ran, result, calls, returned, other, cli>>

----------------------------------------------------------------------------
(* Bounds of the model *)

MaxRows == 2
MaxCalls == 2

----------------------------------------------------------------------------
(* Characters and text *)

Digit == {"0", "1", "2", "3", "4", "5", "6", "7", "8", "9"}
Upper == {"A", "B", "C", "D", "E", "F", "G", "H", "I", "J", "K", "L", "M",
          "N", "O", "P", "Q", "R", "S", "T", "U", "V", "W", "X", "Y", "Z"}
Space == {" ", "\n", "\t"}

DigitVal(c) ==
    CASE c = "0" -> 0 [] c = "1" -> 1 [] c = "2" -> 2 [] c = "3" -> 3
      [] c = "4" -> 4 [] c = "5" -> 5 [] c = "6" -> 6 [] c = "7" -> 7
      [] c = "8" -> 8 [] c = "9" -> 9

DigitChar(d) ==
    CASE d = 0 -> "0" [] d = 1 -> "1" [] d = 2 -> "2" [] d = 3 -> "3"
      [] d = 4 -> "4" [] d = 5 -> "5" [] d = 6 -> "6" [] d = 7 -> "7"
      [] d = 8 -> "8" [] d = 9 -> "9"

AllIn(s, S) == \A i \in 1..Len(s) : s[i] \in S

\* value of a non-empty string of decimal digits
RECURSIVE DigitsVal(_)
DigitsVal(s) ==
    IF Len(s) = 0 THEN 0
    ELSE 10 * DigitsVal(SubSeq(s, 1, Len(s) - 1)) + DigitVal(s[Len(s)])

\* str(n) for a natural number n
RECURSIVE NatToStr(_)
NatToStr(n) ==
    IF n < 10 THEN <<DigitChar(n)>>
    ELSE NatToStr(n \div 10) \o <<DigitChar(n % 10)>>

\* str(n) for a Python int
IntToStr(n) == IF n < 0 THEN <<"-">> \o NatToStr(-n) ELSE NatToStr(n)

\* str(x) for the Python float x10/10
FloatToStr(x10) ==
    LET a == IF x10 < 0 THEN -x10 ELSE x10
    IN  (IF x10 < 0 THEN <<"-">> ELSE <<>>)
            \o NatToStr(a \div 10) \o <<".", DigitChar(a % 10)>>

\* s.strip(): leading and trailing whitespace removed
RECURSIVE LStrip(_)
LStrip(s) ==
    IF Len(s) > 0 /\ s[1] \in Space THEN LStrip(Tail(s)) ELSE s

RECURSIVE RStrip(_)
RStrip(s) ==
    IF Len(s) > 0 /\ s[Len(s)] \in Space
    THEN RStrip(SubSeq(s, 1, Len(s) - 1)) ELSE s

Strip(s) == RStrip(LStrip(s))

\* position of the first occurrence of character c in s, 0 if there is none
RECURSIVE IndexOf(_, _, _)
IndexOf(s, c, i) ==
    IF i > Len(s) THEN 0 ELSE IF s[i] = c THEN i ELSE IndexOf(s, c, i + 1)

\* s.split(c): the pieces of s between the occurrences of c
RECURSIVE SplitOn(_, _)
SplitOn(s, c) ==
    LET k == IndexOf(s, c, 1)
    IN  IF k = 0 THEN <<s>>
        ELSE <<SubSeq(s, 1, k - 1)>> \o SplitOn(SubSeq(s, k + 1, Len(s)), c)

\* s.split(): the maximal runs of non-whitespace characters of s
RECURSIVE SplitWs(_, _)
SplitWs(s, cur) ==
    IF Len(s) = 0 THEN (IF Len(cur) = 0 THEN <<>> ELSE <<cur>>)
    ELSE IF s[1] \in Space
         THEN (IF Len(cur) = 0 THEN <<>> ELSE <<cur>>) \o SplitWs(Tail(s), <<>>)
         ELSE SplitWs(Tail(s), Append(cur, s[1]))

----------------------------------------------------------------------------
(* Cells and the Python conversions applied to them *)

NaN == [t |-> "nan", x10 |-> 0, s |-> <<>>]
Inf == [t |-> "inf", x10 |-> 0, s |-> <<>>]
Num(x10) == [t |-> "num", x10 |-> x10, s |-> <<>>]
Txt(s) == [t |-> "str", x10 |-> 0, s |-> s]

\* pd.notna(v)
notna(v) == v.t # "nan"

\* str(v)
StrOf(v) ==
    CASE v.t = "str" -> v.s
      [] v.t = "nan" -> <<"n", "a", "n">>
      [] v.t = "inf" -> <<"i", "n", "f">>
      [] v.t = "num" -> FloatToStr(v.x10)

\* float(text): surrounding whitespace and one sign are accepted, then "inf",
\* "nan" or digits with an optional fraction; anything else is a ValueError.
\* The fraction is kept to its first digit (the model's floats are tenths).
ParseUnsigned(s) ==
    LET k == IndexOf(s, ".", 1)
        ip == IF k = 0 THEN s ELSE SubSeq(s, 1, k - 1)
        fp == IF k = 0 THEN <<>> ELSE SubSeq(s, k + 1, Len(s))
    IN  IF s = <<"i", "n", "f">> THEN [exc |-> "none", v |-> Inf]
        ELSE IF s = <<"n", "a", "n">> THEN [exc |-> "none", v |-> NaN]
        ELSE IF AllIn(ip, Digit) /\ AllIn(fp, Digit) /\ Len(ip) + Len(fp) > 0
        THEN [exc |-> "none",
              v |-> Num(10 * DigitsVal(ip)
                        + (IF Len(fp) = 0 THEN 0 ELSE DigitVal(fp[1])))]
        ELSE [exc |-> "ValueError", v |-> NaN]

Negate(r) ==
    IF r.exc = "none" /\ r.v.t = "num" THEN [r EXCEPT !.v = Num(-r.v.x10)]
    ELSE r

\* float(v)
float(v) ==
    IF v.t # "str" THEN [exc |-> "none", v |-> v]
    ELSE LET s == Strip(v.s)
         IN  IF Len(s) > 0 /\ s[1] = "-" THEN Negate(ParseUnsigned(Tail(s)))
             ELSE IF Len(s) > 0 /\ s[1] = "+" THEN ParseUnsigned(Tail(s))
             ELSE ParseUnsigned(s)

\* int(x) for a float x: truncation toward zero; int(nan) is a ValueError and
\* int(inf) an OverflowError
int(x) ==
    CASE x.t = "nan" -> [exc |-> "ValueError", v |-> 0]
      [] x.t = "inf" -> [exc |-> "OverflowError", v |-> 0]
      [] x.t = "num" ->
            [exc |-> "none",
             v |-> IF x.x10 < 0 THEN -((-x.x10) \div 10) ELSE x.x10 \div 10]

\* int(float(v))
int_float(v) ==
    LET f == float(v)
    IN  IF f.exc # "none" THEN [exc |-> f.exc, v |-> 0] ELSE int(f.v)

----------------------------------------------------------------------------
(* Findings *)

None == <<>>
Some(x) == <<x>>

ValidationResult(level, sheet, row, column, message) ==
    [level |-> level, sheet |-> sheet, row |-> row, column |-> column,
     message |-> message]

\* Render with the column segment put before the row segment
Render_column_first(f) ==
    LET location0 == <<"[", f.sheet, "]">>
        location1 == IF f.column # None /\ f.column[1] # ""
                     THEN location0 \o <<" Column '", f.column[1], "'">>
                     ELSE location0
        location2 == IF f.row # None
                     THEN location1 \o <<" Row ">> \o IntToStr(f.row[1])
                     ELSE location1
    IN  location2 \o <<": ">> \o f.message

\* ValidationResult.__str__: the rendered text, as a sequence of text chunks
Render(f) ==
    LET location0 == <<"[", f.sheet, "]">>
        location1 == IF f.row # None
                     THEN location0 \o <<" Row ">> \o IntToStr(f.row[1])
                     ELSE location0
        location2 == IF f.column # None /\ f.column[1] # ""
                     THEN location1 \o <<" Column '", f.column[1], "'">>
                     ELSE location1
    IN  location2 \o <<": ">> \o f.message

\* What a piece of the validator did: the findings it appended to self.errors
\* and self.warnings, and the exception that ended it ("none": it completed)
Ok == [e |-> <<>>, w |-> <<>>, exc |-> "none"]
Err(f) == [e |-> <<f>>, w |-> <<>>, exc |-> "none"]
Warn(f) == [e |-> <<>>, w |-> <<f>>, exc |-> "none"]
Raise(x) == [e |-> <<>>, w |-> <<>>, exc |-> x]

\* Then with the findings of b put before those of a
Then_reversed(a, b) ==
    IF a.exc # "none" THEN a
    ELSE [e |-> b.e \o a.e, w |-> b.w \o a.w, exc |-> b.exc]

\* a; b  -- b runs only if a completed
Then(a, b) ==
    IF a.exc # "none" THEN a
    ELSE [e |-> a.e \o b.e, w |-> a.w \o b.w, exc |-> b.exc]

\* the pieces rs[i], rs[i+1], ... run one after the other
RECURSIVE ChainFrom(_, _)
ChainFrom(rs, i) ==
    IF i > Len(rs) THEN Ok ELSE Then(rs[i], ChainFrom(rs, i + 1))

Chain(rs) == ChainFrom(rs, 1)

----------------------------------------------------------------------------
(* Sheets *)

\* df.empty: no rows or no columns
empty(df) == Len(df.rows) = 0 \/ df.cols = {}

\* row.get(col, "")
row_get(row, col) == IF col \in DOMAIN row THEN row[col] ELSE Txt(<<>>)

\* the raw cells of a column, df[col].values
values(df, col) == {df.rows[i][col] : i \in 1..Len(df.rows)}

\* name in df[col].values: elementwise equality of the text with the cells
in_values(name, df, col) ==
    \E v \in values(df, col) : v.t = "str" /\ v.s = name

----------------------------------------------------------------------------
(* Class constants of CDDValidator *)

REQUIRED_SHEETS == <<"IP", "Radio 4G">>
OPTIONAL_SHEETS == <<"Radio 2G", "Radio 3G", "Radio 5G", "2G-2G", "2G-3G",
                     "2G-4G", "3G-2G", "3G-3G", "3G-4G", "RET", "Mapping">>

IP_REQUIRED_COLUMNS ==
    <<"NE_Name", "eNBId", "OAM_IP", "OAM_Gateway", "LTE_IP", "LTE_Gateway">>

RADIO_4G_REQUIRED_COLUMNS ==
    <<"NE_Name", "CellName", "cellId", "PCI", "TAC", "arfcndl",
      "dlChannelBandwidth", "RRU", "RRUname", "rruPort">>

RADIO_5G_REQUIRED_COLUMNS ==
    <<"NE_Name", "nRCell", "gNBId", "cellLocalId", "nRPCI", "nRTAC",
      "arfcnDL", "bSChannelBwDL", "RRU", "RRUname", "rruPort">>

MAPPING_REQUIRED_COLUMNS == <<"Version", "Sheet", "Column">>

REQUIRED_SECTIONS == <<"mcc", "mnc", "province", "mme", "SPU">>

SPU_VERSION == "V1.70.26"

PCI_MAX == 503
NRPCI_MAX == 1007
OCTET_MAX == 255

----------------------------------------------------------------------------
(* Format validators *)

\* re.match(r'^[ge][A-Z]{2}\d+[A-Z]?$', ne_name); "$" also matches just
\* before a newline that ends the text
NeNameCore(t) ==
    /\ Len(t) >= 4
    /\ t[1] \in {"g", "e"}
    /\ t[2] \in Upper
    /\ t[3] \in Upper
    /\ \/ AllIn(SubSeq(t, 4, Len(t)), Digit)
       \/ /\ Len(t) >= 5
          /\ AllIn(SubSeq(t, 4, Len(t) - 1), Digit)
          /\ t[Len(t)] \in Upper

is_valid_ne_name(ne_name) ==
    \/ NeNameCore(ne_name)
    \/ /\ Len(ne_name) > 0
       /\ ne_name[Len(ne_name)] = "\n"
       /\ NeNameCore(SubSeq(ne_name, 1, Len(ne_name) - 1))

\* re.match(r'^(\d{1,3}\.){3}\d{1,3}$', ip)
IpPattern(t) ==
    LET parts == SplitOn(t, ".")
    IN  /\ Len(parts) = 4
        /\ \A i \in 1..4 : Len(parts[i]) \in 1..3 /\ AllIn(parts[i], Digit)

\* int(octet): surrounding whitespace is ignored
OctetVal(octet) == DigitsVal(Strip(octet))

is_valid_ip(ip) ==
    LET matched == \/ IpPattern(ip)
                   \/ /\ Len(ip) > 0
                      /\ ip[Len(ip)] = "\n"
                      /\ IpPattern(SubSeq(ip, 1, Len(ip) - 1))
        octets == SplitOn(ip, ".")
    IN  IF ~matched THEN FALSE
        ELSE \A i \in 1..Len(octets) :
                0 <= OctetVal(octets[i]) /\ OctetVal(octets[i]) <= OCTET_MAX

----------------------------------------------------------------------------
(* The config: a dict, modelled by the set of its top-level keys, the keys of
   its "mme" and "amf" registries and its "SPU" block, the versions in the
   order of the document, each with the keys of its three mappings *)

EmptyConfig == [keys |-> {}, mme |-> {}, amf |-> {}, SPU |-> <<>>]

\* self.config.get("mme", {}) and self.config.get("amf", {})
config_mme(c) == IF "mme" \in c.keys THEN c.mme ELSE {}
config_amf(c) == IF "amf" \in c.keys THEN c.amf ELSE {}

\* self.config.get("SPU", {})
config_spu(c) == IF "SPU" \in c.keys THEN c.SPU ELSE <<>>

spu_versions(spu) == [i \in 1..Len(spu) |-> spu[i].version]

\* spu.get(version, {}): the mappings of a version, empty if it is not there
spu_get(spu, version) ==
    IF \E i \in 1..Len(spu) : spu[i].version = version
    THEN spu[CHOOSE i \in 1..Len(spu) : spu[i].version = version]
    ELSE [version |-> version, bandwidth_mapping |-> {},
          bandIndicator_mapping |-> {}, hwWorkScence_mapping |-> {}]

\* ", ".join(names)
RECURSIVE Join(_, _)
Join(names, i) ==
    IF i > Len(names) THEN <<>>
    ELSE IF i = Len(names) THEN <<names[i]>>
    ELSE <<names[i], ", ">> \o Join(names, i + 1)

----------------------------------------------------------------------------
(* CDDValidator._load_config, as called from __init__: the attributes the
   instance has when it is called are `have` *)

load_config(file, have) ==
    IF file.status = "ok"
    THEN [exc |-> "none", config |-> file.content]
    ELSE IF "errors" \in have
    THEN [exc |-> "none", config |-> EmptyConfig]
    ELSE [exc |-> "AttributeError", config |-> EmptyConfig]

\* the finding the except branch of _load_config appends
load_config_finding(file) ==
    ValidationResult("error", "config", None, None,
                     <<"Failed to load config.json: ", file.status>>)

----------------------------------------------------------------------------
(* CDDValidator._validate_required_sheets *)

required_sheet_check(d, sheet_name) ==
    IF sheet_name \notin DOMAIN d
    THEN Err(ValidationResult("error", sheet_name, None, None,
                <<"Required sheet '", sheet_name, "' is missing">>))
    ELSE IF empty(d[sheet_name])
    THEN Err(ValidationResult("error", sheet_name, None, None,
                <<"Required sheet '", sheet_name, "' is empty">>))
    ELSE Ok

\* optional_sheet_check without the test for an empty sheet
optional_sheet_check_missing_only(d, sheet_name) ==
    IF sheet_name \notin DOMAIN d
    THEN Warn(ValidationResult("warning", sheet_name, None, None,
                <<"Optional sheet '", sheet_name, "' is missing or empty">>))
    ELSE Ok

optional_sheet_check(d, sheet_name) ==
    IF sheet_name \notin DOMAIN d \/ empty(d[sheet_name])
    THEN Warn(ValidationResult("warning", sheet_name, None, None,
                <<"Optional sheet '", sheet_name, "' is missing or empty">>))
    ELSE Ok

validate_required_sheets(d) ==
    Then(Chain([i \in 1..Len(REQUIRED_SHEETS) |->
                    required_sheet_check(d, REQUIRED_SHEETS[i])]),
         Chain([i \in 1..Len(OPTIONAL_SHEETS) |->
                    optional_sheet_check(d, OPTIONAL_SHEETS[i])]))

----------------------------------------------------------------------------
(* CDDValidator._validate_ip_sheet *)

ip_column_check(df, col) ==
    IF col \notin df.cols
    THEN Err(ValidationResult("error", "IP", None, Some(col),
                <<"Required column '", col, "' is missing">>))
    ELSE Ok

ip_ne_name_check(row, row_num) ==
    LET ne_name == StrOf(row_get(row, "NE_Name"))
    IN  IF Len(ne_name) > 0 /\ ~is_valid_ne_name(ne_name)
        THEN Warn(ValidationResult("warning", "IP", Some(row_num),
                Some("NE_Name"),
                <<"NE_Name '">> \o ne_name \o
                <<"' doesn't match expected format (e.g., gCM00025Z, eBL00123Z)">>))
        ELSE Ok

ip_address_check(df, row, row_num, ip_col) ==
    IF ip_col \in df.cols
    THEN LET ip_value == StrOf(row_get(row, ip_col))
         IN  IF Len(ip_value) > 0 /\ ip_value # <<"n", "a", "n">>
                  /\ ~is_valid_ip(ip_value)
             THEN Err(ValidationResult("error", "IP", Some(row_num),
                        Some(ip_col),
                        <<"Invalid IP address: '">> \o ip_value \o <<"'">>))
             ELSE Ok
    ELSE Ok

IP_COLUMNS == <<"OAM_IP", "LTE_IP", "NR_IP">>

ip_enb_id_check(row, row_num) ==
    LET enb_id == row_get(row, "eNBId")
        n == int_float(enb_id)
    IN  IF notna(enb_id)
        THEN IF n.exc = "none" THEN Ok
             ELSE IF n.exc \in {"ValueError", "TypeError"}
             THEN Err(ValidationResult("error", "IP", Some(row_num),
                        Some("eNBId"),
                        <<"eNBId '">> \o StrOf(enb_id) \o <<"' must be numeric">>))
             ELSE Raise(n.exc)
        ELSE Ok

ip_mme_check(c, row, row_num) ==
    LET mme_str == StrOf(row_get(row, "MME"))
        mme_names == SplitWs(mme_str, <<>>)
        mme_config == config_mme(c)
    IN  IF Len(mme_str) > 0 /\ mme_str # <<"n", "a", "n">>
        THEN Chain([k \in 1..Len(mme_names) |->
                IF mme_names[k] \notin mme_config
                THEN Warn(ValidationResult("warning", "IP", Some(row_num),
                        Some("MME"),
                        <<"MME '">> \o mme_names[k] \o
                        <<"' not found in config.json">>))
                ELSE Ok])
        ELSE Ok

ip_amf_check(c, row, row_num) ==
    LET amf_str == StrOf(row_get(row, "AMF"))
        amf_names == SplitWs(amf_str, <<>>)
        amf_config == config_amf(c)
    IN  IF Len(amf_str) > 0 /\ amf_str # <<"n", "a", "n">>
        THEN Chain([k \in 1..Len(amf_names) |->
                IF amf_names[k] \notin amf_config
                THEN Warn(ValidationResult("warning", "IP", Some(row_num),
                        Some("AMF"),
                        <<"AMF '">> \o amf_names[k] \o
                        <<"' not found in config.json">>))
                ELSE Ok])
        ELSE Ok

\* ip_row with the row numbered without the header row
ip_row_without_header(df, c, idx) ==
    LET row == df.rows[idx + 1]
        row_num == idx + 1
    IN  Chain(<<ip_ne_name_check(row, row_num),
                Chain([k \in 1..Len(IP_COLUMNS) |->
                        ip_address_check(df, row, row_num, IP_COLUMNS[k])]),
                ip_enb_id_check(row, row_num),
                ip_mme_check(c, row, row_num),
                ip_amf_check(c, row, row_num)>>)

\* the body of the row loop; idx is the row's index label, its 0-based position
ip_row(df, c, idx) ==
    LET row == df.rows[idx + 1]
        row_num == idx + 2
    IN  Chain(<<ip_ne_name_check(row, row_num),
                Chain([k \in 1..Len(IP_COLUMNS) |->
                        ip_address_check(df, row, row_num, IP_COLUMNS[k])]),
                ip_enb_id_check(row, row_num),
                ip_mme_check(c, row, row_num),
                ip_amf_check(c, row, row_num)>>)

validate_ip_sheet(d, c) ==
    IF "IP" \notin DOMAIN d \/ empty(d["IP"]) THEN Ok
    ELSE LET df == d["IP"]
         IN  Then(Chain([k \in 1..Len(IP_REQUIRED_COLUMNS) |->
                            ip_column_check(df, IP_REQUIRED_COLUMNS[k])]),
                  Chain([i \in 1..Len(df.rows) |-> ip_row(df, c, i - 1)]))

----------------------------------------------------------------------------
(* CDDValidator._validate_radio_4g_sheet *)

r4g_column_check(df, col) ==
    IF col \notin df.cols
    THEN Err(ValidationResult("error", "Radio 4G", None, Some(col),
                <<"Required column '", col, "' is missing">>))
    ELSE Ok

\* ne_name_reference_check with a missing IP sheet taken for one without names
ne_name_reference_check_unguarded(d, sheet, row, row_num) ==
    LET ne_name == StrOf(row_get(row, "NE_Name"))
    IN  IF /\ Len(ne_name) > 0
           /\ IF "IP" \in DOMAIN d
              THEN /\ "NE_Name" \in d["IP"].cols
                   /\ ~in_values(ne_name, d["IP"], "NE_Name")
              ELSE TRUE
        THEN Err(ValidationResult("error", sheet, Some(row_num),
                    Some("NE_Name"),
                    <<"NE_Name '">> \o ne_name \o
                    <<"' not found in IP sheet">>))
        ELSE Ok

\* the cross-sheet check of a radio sheet's row against the IP sheet
ne_name_reference_check(d, sheet, row, row_num) ==
    LET ne_name == StrOf(row_get(row, "NE_Name"))
    IN  IF Len(ne_name) > 0 /\ "IP" \in DOMAIN d
        THEN IF "NE_Name" \in d["IP"].cols
             THEN IF ~in_values(ne_name, d["IP"], "NE_Name")
                  THEN Err(ValidationResult("error", sheet, Some(row_num),
                            Some("NE_Name"),
                            <<"NE_Name '">> \o ne_name \o
                            <<"' not found in IP sheet">>))
                  ELSE Ok
             ELSE Ok
        ELSE Ok

r4g_pci_check(row, row_num) ==
    LET pci == row_get(row, "PCI")
        pci_int == int_float(pci)
    IN  IF notna(pci)
        THEN IF pci_int.exc = "none"
             THEN IF pci_int.v < 0 \/ pci_int.v > PCI_MAX
                  THEN Err(ValidationResult("error", "Radio 4G", Some(row_num),
                            Some("PCI"),
                            <<"PCI ">> \o IntToStr(pci_int.v) \o
                            <<" is out of range (0-503)">>))
                  ELSE Ok
             ELSE IF pci_int.exc \in {"ValueError", "TypeError"}
             THEN Err(ValidationResult("error", "Radio 4G", Some(row_num),
                        Some("PCI"),
                        <<"PCI '">> \o StrOf(pci) \o <<"' must be numeric">>))
             ELSE Raise(pci_int.exc)
        ELSE Ok

r4g_arfcndl_check(band_indicator_mapping, row, row_num) ==
    LET arfcn_dl == row_get(row, "arfcndl")
        n == int_float(arfcn_dl)
    IN  IF notna(arfcn_dl)
        THEN IF n.exc # "none" THEN Raise(n.exc)
             ELSE LET arfcn_str == IntToStr(n.v)
                  IN  IF arfcn_str \notin band_indicator_mapping
                      THEN Warn(ValidationResult("warning", "Radio 4G",
                                Some(row_num), Some("arfcndl"),
                                <<"EARFCN ">> \o arfcn_str \o
                                <<" not found in bandIndicator_mapping">>))
                      ELSE Ok
        ELSE Ok

r4g_rru_name_check(hw_mapping, row, row_num) ==
    LET rru_name == StrOf(row_get(row, "RRUname"))
    IN  IF Len(rru_name) > 0 /\ rru_name # <<"n", "a", "n">>
        THEN IF rru_name \notin hw_mapping
             THEN Warn(ValidationResult("warning", "Radio 4G", Some(row_num),
                        Some("RRUname"),
                        <<"RRU type '">> \o rru_name \o
                        <<"' not found in hwWorkScence_mapping">>))
             ELSE Ok
        ELSE Ok

r4g_bandwidth_check(bandwidth_mapping, row, row_num) ==
    LET dl_bw == row_get(row, "dlChannelBandwidth")
        f == float(dl_bw)
    IN  IF notna(dl_bw)
        THEN IF f.exc # "none" THEN Raise(f.exc)
             ELSE LET bw_str == StrOf(f.v)
                  IN  IF bw_str \notin bandwidth_mapping
                      THEN Warn(ValidationResult("warning", "Radio 4G",
                                Some(row_num), Some("dlChannelBandwidth"),
                                <<"Bandwidth ">> \o bw_str \o
                                <<" not found in bandwidth_mapping">>))
                      ELSE Ok
        ELSE Ok

r4g_row(d, c, idx) ==
    LET row == d["Radio 4G"].rows[idx + 1]
        row_num == idx + 2
        spu_config == spu_get(config_spu(c), SPU_VERSION)
    IN  Chain(<<ne_name_reference_check(d, "Radio 4G", row, row_num),
                r4g_pci_check(row, row_num),
                r4g_arfcndl_check(spu_config.bandIndicator_mapping, row, row_num),
                r4g_rru_name_check(spu_config.hwWorkScence_mapping, row, row_num),
                r4g_bandwidth_check(spu_config.bandwidth_mapping, row, row_num)>>)

validate_radio_4g_sheet(d, c) ==
    IF "Radio 4G" \notin DOMAIN d \/ empty(d["Radio 4G"]) THEN Ok
    ELSE LET df == d["Radio 4G"]
         IN  Then(Chain([k \in 1..Len(RADIO_4G_REQUIRED_COLUMNS) |->
                            r4g_column_check(df, RADIO_4G_REQUIRED_COLUMNS[k])]),
                  Chain([i \in 1..Len(df.rows) |-> r4g_row(d, c, i - 1)]))

----------------------------------------------------------------------------
(* CDDValidator._validate_radio_5g_sheet *)

\* r5g_column_check reporting at the severity of the other sheets
r5g_column_check_as_error(df, col) ==
    IF col \notin df.cols
    THEN Err(ValidationResult("error", "Radio 5G", None, Some(col),
                <<"Required column '", col, "' is missing">>))
    ELSE Ok

r5g_column_check(df, col) ==
    IF col \notin df.cols
    THEN Warn(ValidationResult("warning", "Radio 5G", None, Some(col),
                <<"Expected column '", col, "' is missing">>))
    ELSE Ok

r5g_nrpci_check(row, row_num) ==
    LET nr_pci == row_get(row, "nRPCI")
        pci_int == int_float(nr_pci)
    IN  IF notna(nr_pci)
        THEN IF pci_int.exc = "none"
             THEN IF pci_int.v < 0 \/ pci_int.v > NRPCI_MAX
                  THEN Err(ValidationResult("error", "Radio 5G", Some(row_num),
                            Some("nRPCI"),
                            <<"nRPCI ">> \o IntToStr(pci_int.v) \o
                            <<" is out of range (0-1007)">>))
                  ELSE Ok
             ELSE IF pci_int.exc \in {"ValueError", "TypeError"}
             THEN Err(ValidationResult("error", "Radio 5G", Some(row_num),
                        Some("nRPCI"),
                        <<"nRPCI '">> \o StrOf(nr_pci) \o <<"' must be numeric">>))
             ELSE Raise(pci_int.exc)
        ELSE Ok

r5g_row(d, idx) ==
    LET row == d["Radio 5G"].rows[idx + 1]
        row_num == idx + 2
    IN  Chain(<<ne_name_reference_check(d, "Radio 5G", row, row_num),
                r5g_nrpci_check(row, row_num)>>)

validate_radio_5g_sheet(d) ==
    IF "Radio 5G" \notin DOMAIN d \/ empty(d["Radio 5G"]) THEN Ok
    ELSE LET df == d["Radio 5G"]
         IN  Then(Chain([k \in 1..Len(RADIO_5G_REQUIRED_COLUMNS) |->
                            r5g_column_check(df, RADIO_5G_REQUIRED_COLUMNS[k])]),
                  Chain([i \in 1..Len(df.rows) |-> r5g_row(d, i - 1)]))

----------------------------------------------------------------------------
(* CDDValidator._validate_mapping_sheet *)

mapping_column_check(df, col) ==
    IF col \notin df.cols
    THEN Err(ValidationResult("error", "Mapping", None, Some(col),
                <<"Required column '", col, "' is missing from Mapping sheet">>))
    ELSE Ok

\* validate_mapping_sheet reporting a missing or empty sheet as an Error
validate_mapping_sheet_as_error(d) ==
    IF "Mapping" \notin DOMAIN d \/ empty(d["Mapping"])
    THEN Err(ValidationResult("error", "Mapping", None, None,
                <<"Mapping sheet is missing or empty. Using default mappings.">>))
    ELSE Chain([k \in 1..Len(MAPPING_REQUIRED_COLUMNS) |->
                    mapping_column_check(d["Mapping"], MAPPING_REQUIRED_COLUMNS[k])])

validate_mapping_sheet(d) ==
    IF "Mapping" \notin DOMAIN d \/ empty(d["Mapping"])
    THEN Warn(ValidationResult("warning", "Mapping", None, None,
                <<"Mapping sheet is missing or empty. Using default mappings.">>))
    ELSE Chain([k \in 1..Len(MAPPING_REQUIRED_COLUMNS) |->
                    mapping_column_check(d["Mapping"], MAPPING_REQUIRED_COLUMNS[k])])

----------------------------------------------------------------------------
(* CDDValidator._validate_config_references *)

config_section_check(c, section) ==
    IF section \notin c.keys
    THEN Err(ValidationResult("error", "config.json", None, None,
                <<"Required section '", section, "' is missing from config.json">>))
    ELSE Ok

config_version_check(c) ==
    LET spu == config_spu(c)
    IN  IF \A i \in 1..Len(spu) : spu[i].version # SPU_VERSION
        THEN Warn(ValidationResult("warning", "config.json", None, None,
                    <<"SPU version V1.70.26 not found. Available versions: ">>
                    \o Join(spu_versions(spu), 1)))
        ELSE Ok

validate_config_references(c) ==
    Then(Chain([k \in 1..Len(REQUIRED_SECTIONS) |->
                    config_section_check(c, REQUIRED_SECTIONS[k])]),
         config_version_check(c))

----------------------------------------------------------------------------
(* The validator as a state machine: the constructor, then validate() step
   by step, one step per rule group *)

GROUPS == <<"_validate_required_sheets", "_validate_ip_sheet",
            "_validate_radio_4g_sheet", "_validate_radio_5g_sheet",
            "_validate_mapping_sheet", "_validate_config_references">>

ALL_ATTRS == {"data", "config", "errors", "warnings"}

\* CDDValidator.__init__
Construct ==
    /\ pc = "new"
    /\ LET r == load_config(cfgFile, {"data"})
       IN  IF r.exc = "none"
           THEN /\ config' = r.config
                /\ attrs' = ALL_ATTRS
                /\ errors' = <<>>
                /\ warnings' = <<>>
                /\ pc' = "constructed"
                /\ UNCHANGED <<exc, raisedIn>>
           ELSE /\ attrs' = {"data"}
                /\ pc' = "raised"
                /\ exc' = r.exc
                /\ raisedIn' = "__init__"
                /\ UNCHANGED <<config, errors, warnings>>
    /\ UNCHANGED <<data, cfgFile, ran, result, calls, returned, other, cli>>

\* ValidateBegin that keeps the findings of the previous call
ValidateBegin_accumulating ==
    /\ pc \in {"constructed", "returned"}
    /\ calls < MaxCalls
    /\ ran' = <<>>
    /\ pc' = GROUPS[1]
    /\ UNCHANGED <<data, cfgFile, attrs, config, errors, warnings, exc,
                   raisedIn, result, calls, returned, other, cli>>

\* ValidateBegin that also resets the loaded config
ValidateBegin_resetting_config ==
    /\ pc \in {"constructed", "returned"}
    /\ calls < MaxCalls
    /\ errors' = <<>>
    /\ warnings' = <<>>
    /\ ran' = <<>>
    /\ config' = EmptyConfig
    /\ pc' = GROUPS[1]
    /\ UNCHANGED <<data, cfgFile, attrs, exc, raisedIn, result, calls,
                   returned, other, cli>>

\* validate(), up to the clearing of the previous results
ValidateBegin ==
    /\ pc \in {"constructed", "returned"}
    /\ calls < MaxCalls
    /\ errors' = <<>>
    /\ warnings' = <<>>
    /\ ran' = <<>>
    /\ pc' = GROUPS[1]
    /\ UNCHANGED <<data, cfgFile, attrs, config, exc, raisedIn, result, calls,
                   returned, other, cli>>

\* one rule group of validate(): r is what the group does
RunGroup(k, r) ==
    /\ pc = GROUPS[k]
    /\ ran' = Append(ran, GROUPS[k])
    /\ errors' = errors \o r.e
    /\ warnings' = warnings \o r.w
    /\ IF r.exc = "none"
       THEN /\ pc' = IF k < Len(GROUPS) THEN GROUPS[k + 1] ELSE "convert"
            /\ UNCHANGED <<exc, raisedIn>>
       ELSE /\ pc' = "raised"
            /\ exc' = r.exc
            /\ raisedIn' = GROUPS[k]
    /\ UNCHANGED <<data, cfgFile, attrs, config, result, calls, returned,
                   other, cli>>

ValidateRequiredSheets == RunGroup(1, validate_required_sheets(data))
ValidateIpSheet == RunGroup(2, validate_ip_sheet(data, config))
ValidateRadio4gSheet == RunGroup(3, validate_radio_4g_sheet(data, config))
ValidateRadio5gSheet == RunGroup(4, validate_radio_5g_sheet(data))
ValidateMappingSheet == RunGroup(5, validate_mapping_sheet(data))
ValidateConfigReferences == RunGroup(6, validate_config_references(config))

\* validate(): the findings rendered and returned
ValidateReturn ==
    /\ pc = "convert"
    /\ result' = [errors |-> [i \in 1..Len(errors) |-> Render(errors[i])],
                  warnings |-> [i \in 1..Len(warnings) |-> Render(warnings[i])]]
    /\ returned' = Append(returned, result')
    /\ calls' = calls + 1
    /\ pc' = "returned"
    /\ UNCHANGED <<data, cfgFile, attrs, config, errors, warnings, exc,
                   raisedIn, ran, other, cli>>

Next ==
    \/ Construct
    \/ ValidateBegin
    \/ ValidateRequiredSheets
    \/ ValidateIpSheet
    \/ ValidateRadio4gSheet
    \/ ValidateRadio5gSheet
    \/ ValidateMappingSheet
    \/ ValidateConfigReferences
    \/ ValidateReturn

----------------------------------------------------------------------------
(* Inputs: the TableSets and config resources the validator is run on *)

gCM00025Z == <<"g", "C", "M", "0", "0", "0", "2", "5", "Z">>
eBL00123Z == <<"e", "B", "L", "0", "0", "1", "2", "3", "Z">>
XYZ123 == <<"X", "Y", "Z", "1", "2", "3">>
gCM1 == <<"g", "C", "M", "1">>
gCM == <<"g", "C", "M">>
gcM1 == <<"g", "c", "M", "1">>
gCM1AB == <<"g", "C", "M", "1", "A", "B">>
gCM1nl == <<"g", "C", "M", "1", "\n">>
abc == <<"a", "b", "c">>
ip192_168_1_1 == <<"1", "9", "2", ".", "1", "6", "8", ".", "1", ".", "1">>
ip256_1_1_1 == <<"2", "5", "6", ".", "1", ".", "1", ".", "1">>
ip192_168_1 == <<"1", "9", "2", ".", "1", "6", "8", ".", "1">>
ip10_0_0_1 == <<"1", "0", ".", "0", ".", "0", ".", "1">>
MME1 == <<"M", "M", "E", "1">>
MME2 == <<"M", "M", "E", "2">>
MME1_MME2 == MME1 \o <<" ">> \o MME2
MME2_MME2 == MME2 \o <<" ">> \o MME2
AMF1 == <<"A", "M", "F", "1">>
AMF2 == <<"A", "M", "F", "2">>
RRU2219 == <<"R", "2", "2", "1", "9">>
RRU4415 == <<"R", "4", "4", "1", "5">>
s1850 == <<"1", "8", "5", "0">>
s20_0 == <<"2", "0", ".", "0">>
s504 == <<"5", "0", "4">>
s503 == <<"5", "0", "3">>
s_inf == <<"i", "n", "f">>
s_nan == <<"n", "a", "n">>

\* a config document with every section and the validator's SPU version
BaseVersion ==
    [version |-> SPU_VERSION, bandwidth_mapping |-> {s20_0},
     bandIndicator_mapping |-> {s1850}, hwWorkScence_mapping |-> {RRU2219}]

OtherVersion ==
    [version |-> "V1.60.10", bandwidth_mapping |-> {s20_0},
     bandIndicator_mapping |-> {s1850}, hwWorkScence_mapping |-> {RRU2219}]

ALL_SECTIONS == {"mcc", "mnc", "province", "mme", "amf", "SPU"}

BaseConfig ==
    [keys |-> ALL_SECTIONS, mme |-> {MME1}, amf |-> {AMF1},
     SPU |-> <<BaseVersion>>]

LoadedFile(c) == [status |-> "ok", content |-> c]
FailedFile(cause) == [status |-> cause, content |-> EmptyConfig]
LOAD_FAILURES == {"FileNotFoundError", "JSONDecodeError"}

Configs ==
    {[keys |-> k, mme |-> {MME1}, amf |-> {AMF1}, SPU |-> spu] :
        k \in SUBSET ALL_SECTIONS,
        spu \in {<<BaseVersion>>, <<OtherVersion>>, <<>>,
                 <<OtherVersion, BaseVersion>>,
                 <<[BaseVersion EXCEPT !.bandwidth_mapping = {},
                                       !.bandIndicator_mapping = {},
                                       !.hwWorkScence_mapping = {}]>>}}

\* rows in which every rule of the validator is satisfied
IP_COLS == {"NE_Name", "eNBId", "OAM_IP", "OAM_Gateway", "LTE_IP",
            "LTE_Gateway", "NR_IP", "MME", "AMF"}

IpRow(name) ==
    [c \in IP_COLS |->
        CASE c = "NE_Name" -> Txt(name)
          [] c = "eNBId" -> Num(1230)
          [] c = "NR_IP" -> NaN
          [] c = "MME" -> Txt(MME1)
          [] c = "AMF" -> Txt(AMF1)
          [] OTHER -> Txt(ip10_0_0_1)]

R4G_COLS == {"NE_Name", "CellName", "cellId", "PCI", "TAC", "arfcndl",
             "dlChannelBandwidth", "RRU", "RRUname", "rruPort"}

R4gRow(name) ==
    [c \in R4G_COLS |->
        CASE c = "NE_Name" -> Txt(name)
          [] c = "PCI" -> Num(1000)
          [] c = "arfcndl" -> Num(18500)
          [] c = "dlChannelBandwidth" -> Num(200)
          [] c = "RRUname" -> Txt(RRU2219)
          [] c \in {"CellName", "RRU", "rruPort"} -> Txt(abc)
          [] OTHER -> Num(10)]

R5G_COLS == {"NE_Name", "nRCell", "gNBId", "cellLocalId", "nRPCI", "nRTAC",
             "arfcnDL", "bSChannelBwDL", "RRU", "RRUname", "rruPort"}

R5gRow(name) ==
    [c \in R5G_COLS |->
        CASE c = "NE_Name" -> Txt(name)
          [] c = "nRPCI" -> Num(1000)
          [] c \in {"nRCell", "RRU", "RRUname", "rruPort"} -> Txt(abc)
          [] OTHER -> Num(10)]

MAPPING_COLS == {"Version", "Sheet", "Column"}
MappingRow == [c \in MAPPING_COLS |-> Txt(abc)]

Sheet(cols, rows) == [cols |-> cols, rows |-> rows]

\* row restricted to the columns cols
Restrict(row, cols) == [c \in cols |-> row[c]]

\* the element name of the i-th row of a sheet
RowName(i) ==
    CASE i = 1 -> gCM00025Z
      [] i = 2 -> eBL00123Z
      [] OTHER -> gCM \o NatToStr(i)

BaseRows(sheet_name) ==
    [i \in 1..MaxRows |->
        CASE sheet_name = "IP" -> IpRow(RowName(i))
          [] sheet_name = "Radio 4G" -> R4gRow(RowName(i))
          [] sheet_name = "Radio 5G" -> R5gRow(RowName(i))
          [] OTHER -> MappingRow]

BaseCols(sheet_name) ==
    CASE sheet_name = "IP" -> IP_COLS
      [] sheet_name = "Radio 4G" -> R4G_COLS
      [] sheet_name = "Radio 5G" -> R5G_COLS
      [] OTHER -> MAPPING_COLS

BaseSheet(sheet_name) == Sheet(BaseCols(sheet_name), BaseRows(sheet_name))

RULED_SHEETS == {"IP", "Radio 4G", "Radio 5G", "Mapping"}
UNRULED_SHEETS == {"Radio 2G", "Radio 3G", "2G-2G", "2G-3G", "2G-4G",
                   "3G-2G", "3G-3G", "3G-4G", "RET"}

\* a TableSet in which every rule is satisfied and no sheet is missing
BaseData ==
    [n \in RULED_SHEETS \cup UNRULED_SHEETS |->
        IF n \in RULED_SHEETS THEN BaseSheet(n) ELSE BaseSheet("Mapping")]

\* a sheet in one of the shapes a workbook can give it
ShapedSheet(sheet_name, shape) ==
    CASE shape = "rows" -> BaseSheet(sheet_name)
      [] shape = "norows" -> Sheet(BaseCols(sheet_name), <<>>)
      [] shape = "nocols" -> Sheet({}, <<Restrict(MappingRow, {})>>)

SHAPES == {"absent", "rows", "norows", "nocols"}

\* no second instance, no command
NoInstance ==
    [attrs |-> {}, config |-> EmptyConfig, errors |-> <<>>, warnings |-> <<>>,
     pc |-> "none", exc |-> "none", raisedIn |-> "none", ran |-> <<>>,
     result |-> [errors |-> <<>>, warnings |-> <<>>], calls |-> 0,
     returned |-> <<>>]

NoCommand ==
    [command |-> "none", strict |-> FALSE, validate |-> FALSE, pc |-> "none",
     prompted |-> FALSE, confirmed |-> FALSE, processed |-> FALSE,
     status |-> "none", cause |-> "none"]

\* the state before the constructor is called on TableSet d and config file
InstanceInit(d, file) ==
    /\ data = d
    /\ cfgFile = file
    /\ attrs = {}
    /\ config = EmptyConfig
    /\ errors = <<>>
    /\ warnings = <<>>
    /\ pc = "new"
    /\ exc = "none"
    /\ raisedIn = "none"
    /\ ran = <<>>
    /\ result = [errors |-> <<>>, warnings |-> <<>>]
    /\ calls = 0
    /\ returned = <<>>

\* the validator used alone, by a caller that is not a command of cli.py
InitWith(d, file) ==
    /\ InstanceInit(d, file)
    /\ other = NoInstance
    /\ cli = NoCommand

\* every sheet in every shape, any of the unruled sheets, any config resource
DataOfShapes(shape, extra) ==
    [n \in {m \in RULED_SHEETS : shape[m] # "absent"} \cup extra |->
        IF n \in RULED_SHEETS THEN ShapedSheet(n, shape[n])
        ELSE BaseSheet("Mapping")]

SheetInit ==
    \E shape \in [RULED_SHEETS -> SHAPES],
       extra \in {{}, {"RET"}, UNRULED_SHEETS},
       file \in {LoadedFile(BaseConfig)} \cup {FailedFile(x) : x \in LOAD_FAILURES} :
        InitWith(DataOfShapes(shape, extra), file)

\* one sheet without up to two of its columns, with 1..MaxRows rows
DataWithout(sheet_name, dropped, n) ==
    [BaseData EXCEPT ![sheet_name] =
        Sheet(BaseCols(sheet_name) \ dropped,
              [i \in 1..n |-> Restrict(BaseRows(sheet_name)[i],
                                       BaseCols(sheet_name) \ dropped)])]

ColumnInit ==
    \E sheet_name \in RULED_SHEETS :
        \E dropped \in {D \in SUBSET BaseCols(sheet_name) : Cardinality(D) <= 2},
           n \in 1..MaxRows :
            InitWith(DataWithout(sheet_name, dropped, n), LoadedFile(BaseConfig))

\* one column of one sheet holding any cells of CellValues, in 1..MaxRows rows
NE_NAME_VALUES ==
    {Txt(gCM00025Z), Txt(eBL00123Z), Txt(XYZ123), Txt(gCM1), Txt(gCM),
     Txt(gcM1), Txt(gCM1AB), Txt(gCM1nl), Txt(<<>>), NaN}

NUMERIC_VALUES ==
    {Num(1000), Num(-10), Num(-5), Txt(abc), Txt(<<>>), Txt(s_inf), Txt(s_nan),
     Inf, NaN}

CellValues(sheet_name, col) ==
    CASE col = "NE_Name" /\ sheet_name = "IP" -> NE_NAME_VALUES
      [] col = "NE_Name" /\ sheet_name # "IP" ->
            {Txt(gCM00025Z), Txt(eBL00123Z), Txt(XYZ123), Txt(<<>>), NaN}
      [] col = "eNBId" -> NUMERIC_VALUES
      [] col \in {"OAM_IP", "LTE_IP", "NR_IP"} ->
            {Txt(ip192_168_1_1), Txt(ip256_1_1_1), Txt(ip192_168_1),
             Txt(ip10_0_0_1 \o <<"\n">>), Txt(<<>>), NaN}
      [] col = "MME" ->
            {Txt(MME1), Txt(MME2), Txt(MME1_MME2), Txt(MME2_MME2), Txt(<<>>),
             NaN}
      [] col = "AMF" -> {Txt(AMF1), Txt(AMF2), Txt(<<>>), NaN}
      [] col = "PCI" ->
            NUMERIC_VALUES \cup {Num(0), Num(5030), Num(5039), Num(5040),
                                 Txt(s503), Txt(s504)}
      [] col = "nRPCI" ->
            NUMERIC_VALUES \cup {Num(0), Num(10070), Num(10079), Num(10080)}
      [] col = "arfcndl" ->
            {Num(18500), Num(18505), Num(99990), Txt(s1850), Txt(abc),
             Txt(<<>>), Inf, NaN}
      [] col = "dlChannelBandwidth" ->
            {Num(200), Num(14), Txt(s20_0), Txt(abc), Txt(<<>>), Inf, NaN}
      [] col = "RRUname" -> {Txt(RRU2219), Txt(RRU4415), Txt(<<>>), NaN}

CELL_TARGETS ==
    {<<"IP", "NE_Name">>, <<"IP", "eNBId">>, <<"IP", "OAM_IP">>,
     <<"IP", "LTE_IP">>, <<"IP", "NR_IP">>,
     <<"IP", "MME">>, <<"IP", "AMF">>,
     <<"Radio 4G", "NE_Name">>, <<"Radio 4G", "PCI">>,
     <<"Radio 4G", "arfcndl">>, <<"Radio 4G", "dlChannelBandwidth">>,
     <<"Radio 4G", "RRUname">>,
     <<"Radio 5G", "NE_Name">>, <<"Radio 5G", "nRPCI">>}

DataWithCells(sheet_name, col, cells) ==
    [BaseData EXCEPT ![sheet_name] =
        Sheet(BaseCols(sheet_name),
              [i \in 1..Len(cells) |->
                    [BaseRows(sheet_name)[i] EXCEPT ![col] = cells[i]]])]

CellInit ==
    \E t \in CELL_TARGETS, n \in 1..MaxRows :
        \E cells \in [1..n -> CellValues(t[1], t[2])] :
            InitWith(DataWithCells(t[1], t[2], cells), LoadedFile(BaseConfig))

\* the valid TableSet with any config
ConfigInit ==
    \E c \in Configs : InitWith(BaseData, LoadedFile(c))

\* every ruled sheet without the columns of `dropped` it would have
COMMON_DROPS == {"NE_Name", "eNBId", "PCI", "nRPCI", "RRUname", "MME", "Version"}

DataWithoutCommon(dropped) ==
    [n \in DOMAIN BaseData |->
        IF n \in RULED_SHEETS
        THEN Sheet(BaseCols(n) \ dropped,
                   [i \in 1..MaxRows |->
                        Restrict(BaseRows(n)[i], BaseCols(n) \ dropped)])
        ELSE BaseData[n]]

CommonDropInit ==
    \E dropped \in SUBSET COMMON_DROPS :
        InitWith(DataWithoutCommon(dropped), LoadedFile(BaseConfig))

\* two columns of one sheet varying together, in 1..MaxRows rows
PAIR_TARGETS ==
    {<<"IP", "NE_Name", "eNBId">>, <<"IP", "OAM_IP", "eNBId">>,
     <<"IP", "MME", "eNBId">>, <<"IP", "AMF", "eNBId">>,
     <<"Radio 4G", "NE_Name", "arfcndl">>,
     <<"Radio 4G", "RRUname", "PCI">>,
     <<"Radio 4G", "PCI", "arfcndl">>,
     <<"Radio 4G", "PCI", "dlChannelBandwidth">>,
     <<"Radio 5G", "NE_Name", "nRPCI">>}

PairValues(col) ==
    CASE col = "NE_Name" -> {Txt(gCM00025Z), Txt(XYZ123)}
      [] col = "eNBId" -> {Num(1230), Txt(s_inf)}
      [] col = "OAM_IP" -> {Txt(ip10_0_0_1), Txt(ip256_1_1_1)}
      [] col = "MME" -> {Txt(MME1), Txt(MME2)}
      [] col = "AMF" -> {Txt(AMF1), Txt(AMF2)}
      [] col = "RRUname" -> {Txt(RRU2219), Txt(RRU4415)}
      [] col = "PCI" -> {Num(1000), Num(5040), Txt(abc), Inf}
      [] col = "nRPCI" -> {Num(1000), Num(10080), Inf}
      [] col = "arfcndl" -> {Num(18500), Txt(abc)}
      [] col = "dlChannelBandwidth" -> {Num(200), Txt(abc)}

DataWithPairs(sheet_name, col1, col2, cells1, cells2) ==
    [BaseData EXCEPT ![sheet_name] =
        Sheet(BaseCols(sheet_name),
              [i \in 1..Len(cells1) |->
                    [BaseRows(sheet_name)[i] EXCEPT ![col1] = cells1[i],
                                                    ![col2] = cells2[i]]])]

PairInit ==
    \E t \in PAIR_TARGETS, n \in 1..MaxRows :
        \E cells1 \in [1..n -> PairValues(t[2])],
           cells2 \in [1..n -> PairValues(t[3])] :
            InitWith(DataWithPairs(t[1], t[2], t[3], cells1, cells2),
                  LoadedFile(BaseConfig))

\* no identity sheet, and the element names of a radio sheet's rows varying
DataWithoutIdentity(sheet_name, cells) ==
    LET d == DataWithCells(sheet_name, "NE_Name", cells)
    IN  [n \in DOMAIN d \ {"IP"} |-> d[n]]

NoIdentityInit ==
    \E sheet_name \in {"Radio 4G", "Radio 5G"}, n \in 1..MaxRows :
        \E cells \in [1..n -> CellValues(sheet_name, "NE_Name")] :
            InitWith(DataWithoutIdentity(sheet_name, cells),
                     LoadedFile(BaseConfig))

\* one cell of the first row of one sheet, the Mapping sheet in any state and
\* one of a few configs, all varying together
CROSS_CELLS ==
    {<<"IP", "eNBId", Num(1230)>>, <<"IP", "eNBId", Txt(s_inf)>>,
     <<"IP", "NE_Name", Txt(XYZ123)>>, <<"Radio 4G", "PCI", Num(5040)>>,
     <<"Radio 4G", "arfcndl", Txt(abc)>>,
     <<"Radio 4G", "dlChannelBandwidth", Txt(<<>>)>>,
     <<"Radio 5G", "nRPCI", Inf>>}

CROSS_CONFIGS ==
    {BaseConfig,
     [BaseConfig EXCEPT !.SPU = <<OtherVersion>>],
     [BaseConfig EXCEPT !.SPU = <<>>],
     [BaseConfig EXCEPT !.keys = ALL_SECTIONS \ {"amf"}],
     [BaseConfig EXCEPT !.keys = ALL_SECTIONS \ {"SPU"}],
     EmptyConfig}

\* the Mapping sheet without the columns of `dropped`, or no Mapping sheet
MAPPING_STATES ==
    {<<"absent", {}>>} \cup {<<"present", D>> : D \in SUBSET MAPPING_COLS}

DataCross(cell, mapping) ==
    LET d == [BaseData EXCEPT ![cell[1]].rows[1][cell[2]] = cell[3]]
    IN  IF mapping[1] = "absent"
        THEN [n \in DOMAIN d \ {"Mapping"} |-> d[n]]
        ELSE [d EXCEPT !["Mapping"] =
                Sheet(MAPPING_COLS \ mapping[2],
                      [i \in 1..MaxRows |->
                            Restrict(MappingRow, MAPPING_COLS \ mapping[2])])]

CrossInit ==
    \E cell \in CROSS_CELLS, mapping \in MAPPING_STATES, c \in CROSS_CONFIGS :
        InitWith(DataCross(cell, mapping), LoadedFile(c))

\* an identity sheet that is there but empty (no rows, or no columns), and
\* one cell of the first row of a radio sheet
DataEmptyIdentity(shape, cell) ==
    [DataCross(cell, <<"present", {}>>) EXCEPT
        !["IP"] = ShapedSheet("IP", shape)]

EmptyIdentityInit ==
    \E shape \in {"norows", "nocols"},
       cell \in {c \in CROSS_CELLS : c[1] # "IP"} \cup
                {<<"Radio 4G", "NE_Name", Txt(<<>>)>>,
                 <<"Radio 5G", "NE_Name", Txt(XYZ123)>>} :
        InitWith(DataEmptyIdentity(shape, cell), LoadedFile(BaseConfig))

Init ==
    \/ SheetInit
    \/ ColumnInit
    \/ CellInit
    \/ ConfigInit
    \/ CommonDropInit
    \/ PairInit
    \/ NoIdentityInit
    \/ CrossInit
    \/ EmptyIdentityInit

Spec == Init /\ [][Next]_vars

----------------------------------------------------------------------------
(* Vocabulary of the properties *)

Range(seq) == {seq[i] : i \in 1..Len(seq)}

\* number of entries of seq that satisfy P
Count(seq, P(_)) == Cardinality({i \in 1..Len(seq) : P(seq[i])})

\* the current validate() call has entered / has completed rule group g
Entered(g) == g \in Range(ran)
Completed(g) == Entered(g) /\ raisedIn # g

Loaded == cfgFile.status = "ok"

MissingOrEmpty(sheet_name) ==
    \/ sheet_name \notin DOMAIN data
    \/ Len(data[sheet_name].rows) = 0
    \/ data[sheet_name].cols = {}

Present(sheet_name) == ~MissingOrEmpty(sheet_name)

\* f is a finding on the given sheet, row and column
At(f, sheet_name, row_num, col) ==
    f.sheet = sheet_name /\ f.row = Some(row_num) /\ f.column = Some(col)

\* f is a sheet-wide finding naming the column
ColumnWide(f, sheet_name, col) ==
    /\ f.sheet = sheet_name
    /\ f.row = None
    /\ f.column = Some(col)
    /\ col \in Range(f.message)

\* the rendered finding r is on the sheet and carries the chunk
RenderedOn(r, sheet_name, chunk) == r[2] = sheet_name /\ chunk \in Range(r)

----------------------------------------------------------------------------
(* C1: when the config resource cannot be loaded, the error list validate()
   returns holds exactly one Error on the sheet "config" whose message
   embeds the cause: construction and validate() go through, and the list
   returned has that one finding. *)
C1_ConfigFailureIsOneFinding ==
    (~Loaded /\ pc # "new") =>
        /\ pc # "raised"
        /\ pc = "returned" =>
              Count(result.errors,
                    LAMBDA r : RenderedOn(r, "config", cfgFile.status)) = 1

----------------------------------------------------------------------------
(* C2: when the config resource cannot be loaded, constructing the validator
   and calling validate() raises nothing, and the sheet-presence findings
   are those a loaded config gives. *)
C2_ConfigFailureIsContained ==
    ~Loaded =>
        /\ exc = "none"
        /\ raisedIn = "none"
        /\ Entered(GROUPS[1]) =>
              /\ SubSeq(errors, 1, Len(validate_required_sheets(data).e))
                    = validate_required_sheets(data).e
              /\ SubSeq(warnings, 1, Len(validate_required_sheets(data).w))
                    = validate_required_sheets(data).w

----------------------------------------------------------------------------
(* C3: with a loaded config, validate() enters the six rule groups in their
   fixed order and returns: no exception leaves a rule group, and a call
   that returned has entered all six. *)
C3_AllGroupsRunInOrder ==
    Loaded =>
        /\ raisedIn \notin Range(GROUPS)
        /\ ran = SubSeq(GROUPS, 1, Len(ran))
        /\ pc = "returned" => ran = GROUPS

----------------------------------------------------------------------------
(* C4: a cell of a numerically coerced field (eNBId, PCI, nRPCI, arfcndl,
   dlChannelBandwidth) that cannot be parsed as a number never raises out of
   validate(): once the sheet's group was entered no exception has left it,
   and once it completed the row and column carry an Error. *)
COERCED_FIELDS ==
    {<<"IP", "eNBId", GROUPS[2]>>, <<"Radio 4G", "PCI", GROUPS[3]>>,
     <<"Radio 4G", "arfcndl", GROUPS[3]>>,
     <<"Radio 4G", "dlChannelBandwidth", GROUPS[3]>>,
     <<"Radio 5G", "nRPCI", GROUPS[4]>>}

\* the cell is there and is no finite number
Unparseable(v) ==
    notna(v) /\ (float(v).exc # "none" \/ float(v).v.t # "num")

C4_CoercionFailureIsAFinding ==
    \A fld \in COERCED_FIELDS :
        (Present(fld[1]) /\ fld[2] \in data[fld[1]].cols) =>
            /\ raisedIn # fld[3]
            /\ Completed(fld[3]) =>
                  \A i \in 1..Len(data[fld[1]].rows) :
                      Unparseable(data[fld[1]].rows[i][fld[2]]) =>
                          Count(errors,
                                LAMBDA f : At(f, fld[1], i + 1, fld[2])) >= 1

----------------------------------------------------------------------------
(* C5: the sheet-presence check emits exactly one Error for each required
   sheet that is missing or empty, exactly one Warning for each optional
   sheet that is missing or empty, nothing for a sheet that is present and
   not empty, and these findings come first in their lists. *)
IsPresenceFinding(f) ==
    f.message[1] \in {"Required sheet '", "Optional sheet '"}

PresenceFinding(f, level, sheet_name) ==
    /\ IsPresenceFinding(f)
    /\ f.level = level
    /\ f.sheet = sheet_name
    /\ f.row = None
    /\ f.column = None

\* the entries of seq that are presence findings are its first ones
PresenceFirst(seq) ==
    \A i \in 1..Len(seq) :
        IsPresenceFinding(seq[i]) <=> i <= Count(seq, IsPresenceFinding)

C5_SheetPresence ==
    Entered(GROUPS[1]) =>
        /\ \A sheet_name \in Range(REQUIRED_SHEETS) :
              /\ Count(errors, LAMBDA f : PresenceFinding(f, "error", sheet_name))
                    = IF MissingOrEmpty(sheet_name) THEN 1 ELSE 0
              /\ MissingOrEmpty(sheet_name) =>
                    Count(errors, LAMBDA f : f.sheet = sheet_name) = 1
        /\ \A sheet_name \in Range(OPTIONAL_SHEETS) :
              Count(warnings, LAMBDA f : PresenceFinding(f, "warning", sheet_name))
                    = IF MissingOrEmpty(sheet_name) THEN 1 ELSE 0
        /\ Count(errors, IsPresenceFinding)
              = Cardinality({n \in Range(REQUIRED_SHEETS) : MissingOrEmpty(n)})
        /\ Count(warnings, IsPresenceFinding)
              = Cardinality({n \in Range(OPTIONAL_SHEETS) : MissingOrEmpty(n)})
        /\ PresenceFirst(errors)
        /\ PresenceFirst(warnings)
        /\ pc = "returned" =>
              /\ Len(result.errors) = Len(errors)
              /\ Len(result.warnings) = Len(warnings)
              /\ \A i \in 1..Len(errors) :
                    IsPresenceFinding(errors[i]) =>
                        RenderedOn(result.errors[i], errors[i].sheet,
                                   "Required sheet '")
              /\ \A i \in 1..Len(warnings) :
                    IsPresenceFinding(warnings[i]) =>
                        RenderedOn(result.warnings[i], warnings[i].sheet,
                                   "Optional sheet '")

\* a call returned for a TableSet with a missing and an empty required sheet,
\* a missing, an empty and a present optional sheet
C5_Witness ==
    /\ pc = "returned"
    /\ "IP" \notin DOMAIN data
    /\ "Radio 4G" \in DOMAIN data /\ Len(data["Radio 4G"].rows) = 0
    /\ "Mapping" \notin DOMAIN data
    /\ "Radio 5G" \in DOMAIN data /\ data["Radio 5G"].cols = {}
    /\ Present("RET")
    /\ Count(errors, IsPresenceFinding) = 2
    /\ Count(warnings, IsPresenceFinding) = 10

----------------------------------------------------------------------------
(* C6: original statement.  For each of the identity, 4G and 5G sheets that
   is present and not empty, every required column missing from it has
   produced exactly one Error that names the column and carries no row,
   when validate() returns. *)
COLUMN_RULES ==
    {<<"IP", GROUPS[2], IP_REQUIRED_COLUMNS, "error">>,
     <<"Radio 4G", GROUPS[3], RADIO_4G_REQUIRED_COLUMNS, "error">>,
     <<"Radio 5G", GROUPS[4], RADIO_5G_REQUIRED_COLUMNS, "warning">>}

C6_MissingColumnIsAnError ==
    pc = "returned" =>
        \A rule \in COLUMN_RULES :
            Present(rule[1]) =>
                \A col \in Range(rule[3]) :
                    Count(errors, LAMBDA f : ColumnWide(f, rule[1], col))
                        = IF col \notin data[rule[1]].cols THEN 1 ELSE 0

(* C6, amended: a sheet's rule group, once entered for a sheet that is
   present and not empty, has appended for every required column missing
   from the sheet exactly one finding that names the column and carries no
   row: an Error for the identity and the 4G sheet, a Warning (and no Error)
   for the 5G sheet.  No such finding exists for a column that is there, for
   a sheet that is missing or empty, or before the group is entered. *)
C6_MissingColumnFinding ==
    \A rule \in COLUMN_RULES :
        \A col \in Range(rule[3]) :
            LET due == /\ Entered(rule[2])
                       /\ Present(rule[1])
                       /\ col \notin data[rule[1]].cols
            IN  /\ Count(errors, LAMBDA f : ColumnWide(f, rule[1], col))
                      = IF due /\ rule[4] = "error" THEN 1 ELSE 0
                /\ Count(warnings, LAMBDA f : ColumnWide(f, rule[1], col))
                      = IF due /\ rule[4] = "warning" THEN 1 ELSE 0
                /\ Count(errors \o warnings,
                         LAMBDA f : f.sheet = rule[1] /\ f.row = None
                                        /\ f.column = Some(col))
                      = IF due THEN 1 ELSE 0

\* a call returned for a TableSet whose identity, 4G and 5G sheets all lack
\* a required column
C6_Witness ==
    /\ pc = "returned"
    /\ Present("IP") /\ "NE_Name" \notin data["IP"].cols
    /\ Present("Radio 4G") /\ "RRUname" \notin data["Radio 4G"].cols
    /\ Present("Radio 5G") /\ "nRPCI" \notin data["Radio 5G"].cols
    /\ Count(errors, LAMBDA f : ColumnWide(f, "IP", "NE_Name")) = 1
    /\ Count(errors, LAMBDA f : ColumnWide(f, "Radio 4G", "RRUname")) = 1
    /\ Count(warnings, LAMBDA f : ColumnWide(f, "Radio 5G", "nRPCI")) = 1

----------------------------------------------------------------------------
(* C7: a per-row field rule is evaluated only when its column is present:
   when eNBId, PCI, nRPCI, arfcndl, dlChannelBandwidth, RRUname or MME is
   absent from a present sheet, no exception leaves the sheet's group, no
   row has a finding for the column, and the only finding for a required
   column is its sheet-wide missing-column finding. *)
ROW_FIELDS ==
    {<<"IP", "eNBId", GROUPS[2]>>, <<"IP", "MME", GROUPS[2]>>,
     <<"Radio 4G", "PCI", GROUPS[3]>>, <<"Radio 4G", "arfcndl", GROUPS[3]>>,
     <<"Radio 4G", "dlChannelBandwidth", GROUPS[3]>>,
     <<"Radio 4G", "RRUname", GROUPS[3]>>,
     <<"Radio 5G", "nRPCI", GROUPS[4]>>}

C7_AbsentColumnHasNoRowFinding ==
    \A fld \in ROW_FIELDS :
        (Present(fld[1]) /\ fld[2] \notin data[fld[1]].cols) =>
            /\ raisedIn # fld[3]
            /\ Count(errors \o warnings,
                     LAMBDA f : f.sheet = fld[1] /\ f.column = Some(fld[2])
                                    /\ f.row # None) = 0

----------------------------------------------------------------------------
(* C8: every 4G-sheet row with a present PCI value has exactly one Error on
   that row and column PCI if the value is not a number or its integer
   value is outside [0, 503], and no finding for PCI otherwise, once the 4G
   group has run; no exception leaves the group on account of a PCI. *)

\* the cell v holds a number whose integer value lies in lo..hi
IntegerIn(v, lo, hi) ==
    /\ float(v).exc = "none"
    /\ float(v).v.t = "num"
    /\ int(float(v).v).v >= lo
    /\ int(float(v).v).v <= hi

C8_PciRule ==
    (Present("Radio 4G") /\ "PCI" \in data["Radio 4G"].cols
        /\ Entered(GROUPS[3])) =>
        \A i \in 1..Len(data["Radio 4G"].rows) :
            LET pci == data["Radio 4G"].rows[i]["PCI"]
            IN  notna(pci) =>
                    /\ Count(errors, LAMBDA f : At(f, "Radio 4G", i + 1, "PCI"))
                          = IF IntegerIn(pci, 0, 503) THEN 0 ELSE 1
                    /\ Count(warnings, LAMBDA f : At(f, "Radio 4G", i + 1, "PCI"))
                          = 0

----------------------------------------------------------------------------
(* C9: every 5G-sheet row with a present nRPCI value has exactly one Error
   on that row and column nRPCI if the value is not a number or its integer
   value is outside [0, 1007], and no finding for nRPCI otherwise, once the
   5G group has run. *)
C9_NrPciRule ==
    (Present("Radio 5G") /\ "nRPCI" \in data["Radio 5G"].cols
        /\ Entered(GROUPS[4])) =>
        \A i \in 1..Len(data["Radio 5G"].rows) :
            LET nr_pci == data["Radio 5G"].rows[i]["nRPCI"]
            IN  notna(nr_pci) =>
                    /\ Count(errors, LAMBDA f : At(f, "Radio 5G", i + 1, "nRPCI"))
                          = IF IntegerIn(nr_pci, 0, 1007) THEN 0 ELSE 1
                    /\ Count(warnings, LAMBDA f : At(f, "Radio 5G", i + 1, "nRPCI"))
                          = 0

----------------------------------------------------------------------------
(* C10: every identity-sheet row that carries an element name has exactly
   one Warning, and no Error, on that row and column NE_Name if the name
   does not match ^[ge][A-Z]{2}\d+[A-Z]?$, and no finding on the name if it
   matches, once the identity group has run. *)
C10_NameFormatRule ==
    (Present("IP") /\ "NE_Name" \in data["IP"].cols /\ Entered(GROUPS[2])) =>
        \A i \in 1..Len(data["IP"].rows) :
            LET ne_name == StrOf(data["IP"].rows[i]["NE_Name"])
            IN  Len(ne_name) > 0 =>
                    /\ Count(warnings, LAMBDA f : At(f, "IP", i + 1, "NE_Name"))
                          = IF is_valid_ne_name(ne_name) THEN 0 ELSE 1
                    /\ Count(errors, LAMBDA f : At(f, "IP", i + 1, "NE_Name"))
                          = 0

----------------------------------------------------------------------------
(* C11: every identity-sheet row with a present value in an IP-typed field
   (OAM_IP, LTE_IP, NR_IP) of the sheet has exactly one Error on that row
   and column if the value is not four dot-separated integers each in
   [0, 255], and no finding on it otherwise, once the identity group has
   run. *)

\* text is four dot-separated integers of one to three digits, each in
\* [0, 255]; a newline that ends the text is not counted
DottedQuad(text) ==
    LET t == IF Len(text) > 0 /\ text[Len(text)] = "\n"
             THEN SubSeq(text, 1, Len(text) - 1)
             ELSE text
        parts == SplitOn(t, ".")
    IN  /\ Len(parts) = 4
        /\ \A k \in 1..4 :
              /\ Len(parts[k]) \in 1..3
              /\ AllIn(parts[k], Digit)
              /\ DigitsVal(parts[k]) <= OCTET_MAX

C11_AddressRule ==
    (Present("IP") /\ Entered(GROUPS[2])) =>
        \A k \in 1..Len(IP_COLUMNS) :
            IP_COLUMNS[k] \in data["IP"].cols =>
                \A i \in 1..Len(data["IP"].rows) :
                    LET ip_value == data["IP"].rows[i][IP_COLUMNS[k]]
                    IN  (notna(ip_value) /\ Len(StrOf(ip_value)) > 0) =>
                            /\ Count(errors,
                                     LAMBDA f : At(f, "IP", i + 1, IP_COLUMNS[k]))
                                  = IF DottedQuad(StrOf(ip_value)) THEN 0 ELSE 1
                            /\ Count(warnings,
                                     LAMBDA f : At(f, "IP", i + 1, IP_COLUMNS[k]))
                                  = 0

----------------------------------------------------------------------------
(* C12: with the identity sheet present, every row of the 4G or 5G sheet
   that carries an element name has exactly one Error on that row and column
   NE_Name if the name is not among the identity sheet's element names, and
   none if it is among them, once the sheet's group has run. *)
RADIO_SHEETS == {<<"Radio 4G", GROUPS[3]>>, <<"Radio 5G", GROUPS[4]>>}

C12_ReferentialRule ==
    \A radio \in RADIO_SHEETS :
        (/\ Present("IP") /\ "NE_Name" \in data["IP"].cols
         /\ Present(radio[1]) /\ "NE_Name" \in data[radio[1]].cols
         /\ Entered(radio[2])) =>
            \A i \in 1..Len(data[radio[1]].rows) :
                LET ne_name == StrOf(data[radio[1]].rows[i]["NE_Name"])
                IN  Len(ne_name) > 0 =>
                        Count(errors,
                              LAMBDA f : At(f, radio[1], i + 1, "NE_Name"))
                            = IF \E j \in 1..Len(data["IP"].rows) :
                                    data["IP"].rows[j]["NE_Name"] = Txt(ne_name)
                              THEN 0 ELSE 1

----------------------------------------------------------------------------
(* C13: when the TableSet has no identity sheet, the sheet-presence check
   has emitted exactly one Error for it, which is the only Error on that
   sheet, and no row of the 4G or 5G sheet has a referential Error, whatever
   element name it carries. *)

\* f is a finding on the element name of a row of a radio sheet
IsReferentialFinding(f) ==
    /\ f.sheet \in {"Radio 4G", "Radio 5G"}
    /\ f.row # None
    /\ f.column = Some("NE_Name")

C13_AbsentIdentitySheet ==
    "IP" \notin DOMAIN data =>
        /\ Count(errors \o warnings, IsReferentialFinding) = 0
        /\ Entered(GROUPS[1]) =>
              /\ Count(errors, LAMBDA f : PresenceFinding(f, "error", "IP")) = 1
              /\ Count(errors, LAMBDA f : f.sheet = "IP") = 1
              /\ errors[1] = ValidationResult("error", "IP", None, None,
                                <<"Required sheet '", "IP", "' is missing">>)
        /\ pc = "returned" =>
              /\ Count(result.errors,
                       LAMBDA r : RenderedOn(r, "IP", "Required sheet '")) = 1
              /\ \A i \in 1..Len(result.errors) :
                    "' not found in IP sheet" \notin Range(result.errors[i])

\* a call returned for a TableSet without identity sheet whose 4G sheet has
\* a row named XYZ123 and a row named gCM00025Z
C13_Witness ==
    /\ pc = "returned"
    /\ "IP" \notin DOMAIN data
    /\ Present("Radio 4G") /\ Present("Radio 5G")
    /\ Len(data["Radio 4G"].rows) = 2
    /\ data["Radio 4G"].rows[1]["NE_Name"] = Txt(XYZ123)
    /\ data["Radio 4G"].rows[2]["NE_Name"] = Txt(gCM00025Z)
    /\ Completed(GROUPS[3]) /\ Completed(GROUPS[4])
    /\ Count(errors, LAMBDA f : PresenceFinding(f, "error", "IP")) = 1

----------------------------------------------------------------------------
(* C14: every identity-sheet row has, on column MME, one Warning for each
   space-separated name of its MME field that is not a key of the config's
   MME registry, and none for a name that is; the same on column AMF with
   the AMF registry; neither column has an Error; once the identity group
   has run. *)
REGISTRY_FIELDS == {<<"MME", "mme", "MME '">>, <<"AMF", "amf", "AMF '">>}

\* the keys of a registry of the config, none if the config lacks it
Registry(section) ==
    IF section \notin config.keys THEN {}
    ELSE IF section = "mme" THEN config.mme ELSE config.amf

\* the names of a name-list cell, none for a missing or empty cell
NamesOf(v) == IF notna(v) THEN SplitWs(StrOf(v), <<>>) ELSE <<>>

C14_RegistryRule ==
    (Present("IP") /\ Entered(GROUPS[2])) =>
        \A fld \in REGISTRY_FIELDS :
            fld[1] \in data["IP"].cols =>
                \A i \in 1..Len(data["IP"].rows) :
                    LET names == NamesOf(data["IP"].rows[i][fld[1]])
                    IN  /\ Count(warnings, LAMBDA f : At(f, "IP", i + 1, fld[1]))
                              = Count(names, LAMBDA n : n \notin Registry(fld[2]))
                        /\ \A k \in 1..Len(names) :
                              Count(warnings,
                                    LAMBDA f : /\ At(f, "IP", i + 1, fld[1])
                                               /\ f.message[1] = fld[3]
                                               /\ SubSeq(f.message, 2,
                                                         Len(f.message) - 1)
                                                     = names[k])
                                  = IF names[k] \in Registry(fld[2]) THEN 0
                                    ELSE Count(names, LAMBDA n : n = names[k])
                        /\ Count(errors, LAMBDA f : At(f, "IP", i + 1, fld[1]))
                              = 0

----------------------------------------------------------------------------
(* C15: every 4G-sheet row with a present EARFCN (arfcndl), RRU hardware
   name (RRUname) or downlink bandwidth (dlChannelBandwidth) has exactly
   one Warning on that row and column if the value's string form is not a
   key of the band-indicator, hardware-type or bandwidth mapping of the
   config version, none if it is, and no Error on it; a config without the
   version or the mapping has no keys, so every present value is warned
   about; once the 4G group has run. *)

\* the mappings of the validator's version in the config, empty if the
\* config has no SPU block or the block has no such version
VersionMapping(name) ==
    IF "SPU" \in config.keys
          /\ \E k \in 1..Len(config.SPU) : config.SPU[k].version = SPU_VERSION
    THEN LET k == CHOOSE k \in 1..Len(config.SPU) :
                        config.SPU[k].version = SPU_VERSION
         IN  config.SPU[k][name]
    ELSE {}

\* the cell holds a finite number
IsNumber(v) == float(v).exc = "none" /\ float(v).v.t = "num"

\* the cell's string form is a key of the mapping of its field
IsMapped(col, v) ==
    CASE col = "arfcndl" ->
            /\ IsNumber(v)
            /\ IntToStr(int(float(v).v).v) \in VersionMapping("bandIndicator_mapping")
      [] col = "dlChannelBandwidth" ->
            /\ IsNumber(v)
            /\ StrOf(float(v).v) \in VersionMapping("bandwidth_mapping")
      [] col = "RRUname" -> StrOf(v) \in VersionMapping("hwWorkScence_mapping")

\* the cell holds a value: it is not missing and, for a name, not empty
IsPresentValue(col, v) ==
    notna(v) /\ (col = "RRUname" => Len(StrOf(v)) > 0)

MAPPED_FIELDS == {"arfcndl", "RRUname", "dlChannelBandwidth"}

C15_MappingRule ==
    (Present("Radio 4G") /\ Entered(GROUPS[3])) =>
        \A col \in MAPPED_FIELDS :
            col \in data["Radio 4G"].cols =>
                \A i \in 1..Len(data["Radio 4G"].rows) :
                    LET v == data["Radio 4G"].rows[i][col]
                    IN  IsPresentValue(col, v) =>
                            /\ Count(warnings,
                                     LAMBDA f : At(f, "Radio 4G", i + 1, col))
                                  = IF IsMapped(col, v) THEN 0 ELSE 1
                            /\ Count(errors,
                                     LAMBDA f : At(f, "Radio 4G", i + 1, col))
                                  = 0

----------------------------------------------------------------------------
(* Claims about what a validate() call emits are read on the call when it is
   over: it has returned, or an exception has left one of its rule groups. *)
Ended == pc = "returned" \/ (pc = "raised" /\ raisedIn \in Range(GROUPS))

----------------------------------------------------------------------------
(* C16: a validate() call emits, for each of the five top-level sections of
   the config (country/mobile codes, province, MME registry, AMF registry,
   SPU block), one Error per key of the section that the config lacks, and
   none for a section that is there; a config without the AMF registry has
   an Error for it. *)
CONFIG_SECTIONS == {{"mcc", "mnc"}, {"province"}, {"mme"}, {"amf"}, {"SPU"}}

\* f is the structural finding for the top-level key of the config
SectionFinding(f, key) ==
    /\ f.sheet = "config.json"
    /\ f.row = None
    /\ f.column = None
    /\ f.message = <<"Required section '", key, "' is missing from config.json">>

C16_ConfigSections ==
    (Loaded /\ Ended) =>
        \A section \in CONFIG_SECTIONS :
            /\ Count(errors,
                     LAMBDA f : \E key \in section : SectionFinding(f, key))
                  = Cardinality(section \ config.keys)
            /\ Count(warnings,
                     LAMBDA f : \E key \in section : SectionFinding(f, key))
                  = 0

----------------------------------------------------------------------------
(* C17: a validate() call on a config whose SPU block lacks the requested
   version emits exactly one Warning, which lists the versions the block
   has, and no Error about the version; with the version in the block it
   emits no such Warning. *)
VersionFinding(f) ==
    /\ f.sheet = "config.json"
    /\ f.message[1] = "SPU version V1.70.26 not found. Available versions: "

\* the versions of the config's SPU block, none if it has no such block
AvailableVersions ==
    IF "SPU" \in config.keys
    THEN {config.SPU[k].version : k \in 1..Len(config.SPU)}
    ELSE {}

C17_MissingVersion ==
    (Loaded /\ Ended) =>
        /\ Count(warnings, VersionFinding)
              = IF SPU_VERSION \in AvailableVersions THEN 0 ELSE 1
        /\ \A i \in 1..Len(warnings) :
              VersionFinding(warnings[i]) =>
                  /\ AvailableVersions \subseteq Range(warnings[i].message)
                  /\ warnings[i].level = "warning"
        /\ Count(errors, VersionFinding) = 0

----------------------------------------------------------------------------
(* C18: a validate() call on a TableSet without the Mapping sheet emits a
   single Warning on that sheet, the one saying that default mappings are
   used, and no Error on it. *)
DefaultMappingFinding(f) ==
    /\ f.sheet = "Mapping"
    /\ f.message
          = <<"Mapping sheet is missing or empty. Using default mappings.">>

C18_AbsentMappingSheet ==
    ("Mapping" \notin DOMAIN data /\ Ended) =>
        /\ Count(warnings, LAMBDA f : f.sheet = "Mapping") = 1
        /\ Count(warnings, DefaultMappingFinding) = 1
        /\ Count(errors, LAMBDA f : f.sheet = "Mapping") = 0

----------------------------------------------------------------------------
(* C19: a validate() call on a TableSet whose Mapping sheet is present and
   not empty emits exactly one Error naming the column for each of Version,
   Sheet and Column that the sheet lacks, none for a column it has, and no
   finding at all on a Mapping sheet that has the three. *)
C19_MappingColumns ==
    (Present("Mapping") /\ Ended) =>
        /\ \A k \in 1..Len(MAPPING_REQUIRED_COLUMNS) :
              Count(errors,
                    LAMBDA f : ColumnWide(f, "Mapping",
                                          MAPPING_REQUIRED_COLUMNS[k]))
                  = IF MAPPING_REQUIRED_COLUMNS[k] \in data["Mapping"].cols
                    THEN 0 ELSE 1
        /\ Range(MAPPING_REQUIRED_COLUMNS) \subseteq data["Mapping"].cols =>
              Count(errors \o warnings, LAMBDA f : f.sheet = "Mapping") = 0

----------------------------------------------------------------------------
(* C20: for a fully valid input -- the config loaded with its sections and
   the requested version, the required sheets and every required column of
   the sheets that are there, every name, address, number, cross-sheet
   reference and config reference satisfied -- validate() raises nothing,
   has no Error at any point, and returns an empty error list and warnings
   that are all warnings about a missing or empty optional sheet. *)
ValidConfig ==
    /\ Loaded
    /\ \A section \in CONFIG_SECTIONS : section \subseteq config.keys
    /\ SPU_VERSION \in AvailableVersions

\* the required sheets are there, and so is every required column of the
\* ruled sheets that are there
ValidShape ==
    /\ Present("IP")
    /\ Range(IP_REQUIRED_COLUMNS) \subseteq data["IP"].cols
    /\ Present("Radio 4G")
    /\ Range(RADIO_4G_REQUIRED_COLUMNS) \subseteq data["Radio 4G"].cols
    /\ Present("Radio 5G") =>
          Range(RADIO_5G_REQUIRED_COLUMNS) \subseteq data["Radio 5G"].cols
    /\ Present("Mapping") =>
          Range(MAPPING_REQUIRED_COLUMNS) \subseteq data["Mapping"].cols

ValidIpRow(row) ==
    /\ row["NE_Name"].t = "str"
    /\ is_valid_ne_name(row["NE_Name"].s)
    /\ \A k \in 1..Len(IP_COLUMNS) :
          (/\ IP_COLUMNS[k] \in DOMAIN row
           /\ notna(row[IP_COLUMNS[k]])
           /\ Len(StrOf(row[IP_COLUMNS[k]])) > 0) =>
              DottedQuad(StrOf(row[IP_COLUMNS[k]]))
    /\ notna(row["eNBId"]) => IsNumber(row["eNBId"])
    /\ \A fld \in REGISTRY_FIELDS :
          fld[1] \in DOMAIN row =>
              Range(NamesOf(row[fld[1]])) \subseteq Registry(fld[2])

\* the row's element name is one of the identity sheet's
ValidReference(row) ==
    /\ row["NE_Name"].t = "str"
    /\ \E j \in 1..Len(data["IP"].rows) :
          data["IP"].rows[j]["NE_Name"] = row["NE_Name"]

ValidRadio4gRow(row) ==
    /\ ValidReference(row)
    /\ notna(row["PCI"]) => IntegerIn(row["PCI"], 0, PCI_MAX)
    /\ \A col \in MAPPED_FIELDS :
          IsPresentValue(col, row[col]) => IsMapped(col, row[col])

ValidRadio5gRow(row) ==
    /\ ValidReference(row)
    /\ notna(row["nRPCI"]) => IntegerIn(row["nRPCI"], 0, NRPCI_MAX)

Valid ==
    /\ ValidConfig
    /\ ValidShape
    /\ \A i \in 1..Len(data["IP"].rows) : ValidIpRow(data["IP"].rows[i])
    /\ \A i \in 1..Len(data["Radio 4G"].rows) :
          ValidRadio4gRow(data["Radio 4G"].rows[i])
    /\ Present("Radio 5G") =>
          \A i \in 1..Len(data["Radio 5G"].rows) :
              ValidRadio5gRow(data["Radio 5G"].rows[i])

\* f is a warning about an optional sheet that is missing or empty
OptionalSheetWarning(f) ==
    /\ f.level = "warning"
    /\ f.sheet \in Range(OPTIONAL_SHEETS)
    /\ MissingOrEmpty(f.sheet)
    /\ f.row = None
    /\ f.column = None
    /\ \/ f.message = <<"Optional sheet '", f.sheet, "' is missing or empty">>
       \/ DefaultMappingFinding(f)

C20_ValidInputHasNoError ==
    Valid =>
        /\ exc = "none"
        /\ raisedIn = "none"
        /\ errors = <<>>
        /\ \A i \in 1..Len(warnings) : OptionalSheetWarning(warnings[i])
        /\ pc = "returned" =>
              /\ ran = GROUPS
              /\ result.errors = <<>>
              /\ result.warnings
                    = [i \in 1..Len(warnings) |-> Render(warnings[i])]

\* a call returned for a valid TableSet with the 5G sheet, without the
\* Mapping sheet and without the nine sheets that carry no rule: it has the
\* ten warnings of the presence check and the one of the mapping rule
C20_Witness ==
    /\ pc = "returned"
    /\ Valid
    /\ Present("Radio 5G")
    /\ "Mapping" \notin DOMAIN data
    /\ result.errors = <<>>
    /\ Len(result.warnings) = Len(OPTIONAL_SHEETS)
    /\ Count(warnings, DefaultMappingFinding) = 1

----------------------------------------------------------------------------
(* C21: each list validate() returns holds every finding of its severity in
   the order the findings were produced: the rule groups in their fixed
   order, within a group the sheet-wide findings and then the rows in sheet
   order, within a row the rules in their fixed order; each finding is
   rendered at its own position, none is dropped, merged with an equal one
   or moved. *)

\* the rank of the rule group that produces the finding
GroupOf(f) ==
    IF IsPresenceFinding(f) THEN 1
    ELSE IF f.sheet = "IP" THEN 2
    ELSE IF f.sheet = "Radio 4G" THEN 3
    ELSE IF f.sheet = "Radio 5G" THEN 4
    ELSE IF f.sheet = "Mapping" THEN 5
    ELSE 6

\* the per-row rules in the order the row loops apply them
ROW_RULES ==
    <<"NE_Name", "OAM_IP", "LTE_IP", "NR_IP", "eNBId", "MME", "AMF", "PCI",
      "nRPCI", "arfcndl", "RRUname", "dlChannelBandwidth">>

RuleOf(f) == CHOOSE k \in 1..Len(ROW_RULES) : ROW_RULES[k] = f.column[1]

\* finding f is produced no later than finding g
NotAfter(f, g) ==
    \/ GroupOf(f) < GroupOf(g)
    \/ /\ GroupOf(f) = GroupOf(g)
       /\ \/ f.row = None
          \/ /\ g.row # None
             /\ \/ f.row[1] < g.row[1]
                \/ f.row[1] = g.row[1] /\ RuleOf(f) <= RuleOf(g)

InProductionOrder(seq) ==
    \A i \in 1..Len(seq) : \A j \in i + 1..Len(seq) : NotAfter(seq[i], seq[j])

\* what the six rule groups produce on the inputs, one after the other
Produced ==
    Chain(<<validate_required_sheets(data), validate_ip_sheet(data, config),
            validate_radio_4g_sheet(data, config),
            validate_radio_5g_sheet(data), validate_mapping_sheet(data),
            validate_config_references(config)>>)

C21_ListsAreCompleteAndOrdered ==
    /\ InProductionOrder(errors)
    /\ InProductionOrder(warnings)
    /\ \A i \in 1..Len(errors) : errors[i].level = "error"
    /\ \A i \in 1..Len(warnings) : warnings[i].level = "warning"
    /\ pc = "returned" =>
          /\ errors = Produced.e
          /\ warnings = Produced.w
          /\ Len(result.errors) = Len(errors)
          /\ Len(result.warnings) = Len(warnings)
          /\ \A i \in 1..Len(errors) : result.errors[i] = Render(errors[i])
          /\ \A i \in 1..Len(warnings) :
                result.warnings[i] = Render(warnings[i])

\* a call returned two equal warnings one after the other: a row naming the
\* same unknown MME twice
C21_Witness ==
    /\ pc = "returned"
    /\ \E i \in 1..Len(warnings) - 1 :
          /\ warnings[i] = warnings[i + 1]
          /\ result.warnings[i] = result.warnings[i + 1]
          /\ warnings[i].sheet = "IP"
          /\ warnings[i].column = Some("MME")
          /\ Len(result.warnings) = Len(warnings)

----------------------------------------------------------------------------
(* C29: for every per-row field rule (element-name format and referential
   check, IP format, eNBId, PCI, nRPCI, MME/AMF, EARFCN, RRU name,
   bandwidth), a row whose cell for the field is a missing value, in a column
   the sheet has, never has a finding on that row and column. *)
RULED_FIELDS ==
    {<<"IP", "NE_Name">>, <<"IP", "OAM_IP">>, <<"IP", "LTE_IP">>,
     <<"IP", "NR_IP">>, <<"IP", "eNBId">>, <<"IP", "MME">>, <<"IP", "AMF">>,
     <<"Radio 4G", "NE_Name">>, <<"Radio 4G", "PCI">>,
     <<"Radio 4G", "arfcndl">>, <<"Radio 4G", "RRUname">>,
     <<"Radio 4G", "dlChannelBandwidth">>,
     <<"Radio 5G", "NE_Name">>, <<"Radio 5G", "nRPCI">>}

\* the rows of the sheet whose cell in the column is a missing value
AbsentCells(sheet_name, col) ==
    IF sheet_name \in DOMAIN data /\ col \in data[sheet_name].cols
    THEN {i \in 1..Len(data[sheet_name].rows) :
             ~notna(data[sheet_name].rows[i][col])}
    ELSE {}

C29_AbsentCellHasNoFinding ==
    \A fld \in RULED_FIELDS :
        \A i \in AbsentCells(fld[1], fld[2]) :
            Count(errors \o warnings,
                  LAMBDA f : At(f, fld[1], i + 1, fld[2])) = 0

----------------------------------------------------------------------------
(* C28: a validate() call on a TableSet whose identity sheet is there but
   empty has reported the sheet once as an empty required sheet and, when
   the sheet has the NE_Name column, has one referential Error on every row
   of the 4G and 5G sheets that carries a non-empty element name; the rows
   have no such Error only when the identity sheet is absent or lacks the
   NE_Name column. *)
EmptyIdentitySheet == "IP" \in DOMAIN data /\ MissingOrEmpty("IP")

\* the referential check is skipped for every radio row
ReferenceCheckSkipped ==
    "IP" \notin DOMAIN data \/ "NE_Name" \notin data["IP"].cols

C28_EmptyIdentitySheet ==
    (EmptyIdentitySheet /\ Ended) =>
        /\ Count(errors, LAMBDA f : PresenceFinding(f, "error", "IP")) = 1
        /\ \A radio \in RADIO_SHEETS :
              (Present(radio[1]) /\ "NE_Name" \in data[radio[1]].cols) =>
                  \A i \in 1..Len(data[radio[1]].rows) :
                      Len(StrOf(data[radio[1]].rows[i]["NE_Name"])) > 0 =>
                          Count(errors,
                                LAMBDA f : /\ At(f, radio[1], i + 1, "NE_Name")
                                           /\ IsReferentialFinding(f))
                              = IF ReferenceCheckSkipped THEN 0 ELSE 1

----------------------------------------------------------------------------
(* C23: no step of validate() changes the TableSet (its sheets, rows and
   cells), the config resource or the config the constructor loaded from it:
   after any number of calls they are what they were before the first. *)
C23_InputsUnchanged ==
    [][/\ data' = data
       /\ cfgFile' = cfgFile
       /\ pc # "new" => config' = config
       /\ (pc = "new" /\ pc' = "constructed") => config' = cfgFile.content]_vars

\* the last of the calls has returned findings, with the loaded config as the
\* constructor read it
C23_Witness ==
    /\ pc = "returned"
    /\ calls = MaxCalls
    /\ Len(returned) = MaxCalls
    /\ config = cfgFile.content
    /\ config # EmptyConfig
    /\ Len(errors) > 0
    /\ Len(warnings) > 0

----------------------------------------------------------------------------
(* C24: every finding that carries a row number is on a row of its sheet,
   names a column, and its number is the row's 0-based position plus 2, the
   row whose cell breaks the rule of that column; the findings about a
   sheet, a column or the config carry no row number. *)

\* the row's cell satisfies the rule of the column
FieldHolds(sheet_name, row, col) ==
    IF col = "NE_Name"
    THEN IF sheet_name = "IP"
         THEN is_valid_ne_name(StrOf(row[col]))
         ELSE ValidReference(row)
    ELSE IF col \in Range(IP_COLUMNS) THEN DottedQuad(StrOf(row[col]))
    ELSE IF col = "eNBId" THEN IsNumber(row[col])
    ELSE IF col = "MME" THEN Range(NamesOf(row[col])) \subseteq Registry("mme")
    ELSE IF col = "AMF" THEN Range(NamesOf(row[col])) \subseteq Registry("amf")
    ELSE IF col = "PCI" THEN IntegerIn(row[col], 0, PCI_MAX)
    ELSE IF col = "nRPCI" THEN IntegerIn(row[col], 0, NRPCI_MAX)
    ELSE IF col \in MAPPED_FIELDS THEN IsMapped(col, row[col])
    ELSE TRUE

\* f is about a sheet, a column of a sheet or the config, not about a row
IsSheetWide(f) ==
    \/ IsPresenceFinding(f)
    \/ f.message[1] \in {"Required column '", "Expected column '"}
    \/ f.sheet \in {"Mapping", "config.json", "config"}

\* the finding is on the row at 0-based position `position` of its sheet
OnRowAt(f, position) ==
    /\ f.sheet \in DOMAIN data
    /\ position \in 0..Len(data[f.sheet].rows) - 1
    /\ f.row = Some(position + 2)
    /\ f.column # None
    /\ f.column[1] \in DOMAIN data[f.sheet].rows[position + 1] =>
          ~FieldHolds(f.sheet, data[f.sheet].rows[position + 1], f.column[1])

C24_RowNumbers ==
    \A i \in 1..Len(errors \o warnings) :
        LET f == (errors \o warnings)[i]
        IN  IF IsSheetWide(f)
            THEN f.row = None
            ELSE \E position \in 0..MaxRows - 1 : OnRowAt(f, position)

\* a call returned with the first row of the identity sheet clean and a
\* finding on the bad cell of its second row, numbered 3
C24_Witness ==
    /\ pc = "returned"
    /\ \E i \in 1..Len(errors \o warnings) :
          LET f == (errors \o warnings)[i]
          IN  /\ f.sheet = "IP"
              /\ OnRowAt(f, 1)
              /\ f.row = Some(3)
              /\ f.column[1] \in data["IP"].cols
    /\ \A i \in 1..Len(errors \o warnings) :
          (errors \o warnings)[i].row # Some(2)

----------------------------------------------------------------------------
(* ValidationResult.__str__ on its own: validate() is about to render one
   finding, drawn from the sheets, rows, columns and messages the validator
   builds findings with. *)
FINDING_SHEETS == {"IP", "Radio 4G", "Mapping", "config.json"}
FINDING_ROWS == {None, Some(2), Some(3), Some(11), Some(120)}
FINDING_COLUMNS == {None, Some("NE_Name"), Some("PCI"), Some("Version")}
FINDING_MESSAGES ==
    {<<"Required sheet '", "IP", "' is missing">>,
     <<"PCI value ", "5", "0", "4", " out of range (0-503)">>}

Findings ==
    {ValidationResult(level, sheet_name, row, column, message) :
        level \in {"error", "warning"}, sheet_name \in FINDING_SHEETS,
        row \in FINDING_ROWS, column \in FINDING_COLUMNS,
        message \in FINDING_MESSAGES}

RenderInit ==
    \E f \in Findings :
        /\ data = BaseData
        /\ cfgFile = LoadedFile(BaseConfig)
        /\ config = BaseConfig
        /\ attrs = ALL_ATTRS
        /\ errors = IF f.level = "error" THEN <<f>> ELSE <<>>
        /\ warnings = IF f.level = "warning" THEN <<f>> ELSE <<>>
        /\ pc = "convert"
        /\ exc = "none"
        /\ raisedIn = "none"
        /\ ran = GROUPS
        /\ result = [errors |-> <<>>, warnings |-> <<>>]
        /\ calls = 0
        /\ returned = <<>>
        /\ other = NoInstance
        /\ cli = NoCommand

RenderNext == ValidateReturn

RenderSpec == RenderInit /\ [][RenderNext]_vars

----------------------------------------------------------------------------
(* C25: the rendered form of a finding is "[<sheet>]", then " Row <row>"
   exactly when the row is set, then " Column '<column>'" exactly when the
   column is set, then ": <message>": the segments are in that order and an
   unset segment leaves nothing in the text. *)

\* r is the rendered form of the finding f
IsRenderedForm(r, f) ==
    LET digits == IF f.row = None THEN 0 ELSE Len(IntToStr(f.row[1]))
        rowAt == IndexOf(r, " Row ", 1)
        columnAt == IndexOf(r, " Column '", 1)
        colonAt == IndexOf(r, ": ", 1)
    IN  /\ SubSeq(r, 1, 3) = <<"[", f.sheet, "]">>
        /\ f.row = None <=> rowAt = 0
        /\ f.row # None =>
              /\ rowAt = 4
              /\ DigitsVal(SubSeq(r, 5, 4 + digits)) = f.row[1]
              /\ \A k \in 5..4 + digits : r[k] \in Digit
        /\ f.column = None <=> columnAt = 0
        /\ f.column # None =>
              /\ columnAt = IF f.row = None THEN 4 ELSE 5 + digits
              /\ SubSeq(r, columnAt + 1, columnAt + 2) = <<f.column[1], "'">>
        /\ colonAt = 4 + (IF f.row = None THEN 0 ELSE 1 + digits)
                       + (IF f.column = None THEN 0 ELSE 3)
        /\ SubSeq(r, colonAt + 1, Len(r)) = f.message

C25_RenderedForm ==
    pc = "returned" =>
        /\ Len(result.errors) = Len(errors)
        /\ Len(result.warnings) = Len(warnings)
        /\ \A i \in 1..Len(errors) : IsRenderedForm(result.errors[i], errors[i])
        /\ \A i \in 1..Len(warnings) :
              IsRenderedForm(result.warnings[i], warnings[i])

\* a finding with a three-digit row and a column has been rendered
C25_Witness ==
    /\ pc = "returned"
    /\ Len(errors) = 1
    /\ errors[1].row = Some(120)
    /\ errors[1].column = Some("PCI")
    /\ result.errors[1]
          = <<"[", "Radio 4G", "]", " Row ", "1", "2", "0", " Column '", "PCI",
              "'", ": ", "PCI value ", "5", "0", "4", " out of range (0-503)">>

----------------------------------------------------------------------------
(* A second CDDValidator instance, built on the same TableSet and config
   resource and run at the same time as the first. Each instance has its own
   config, errors and warnings attributes (__init__); the TableSet and the
   config resource are shared and only read. The two passes interleave
   between rule groups. *)
OtherNew == [NoInstance EXCEPT !.pc = "new"]

OtherConstruct ==
    /\ other.pc = "new"
    /\ LET r == load_config(cfgFile, {"data"})
       IN  other' = IF r.exc = "none"
                    THEN [other EXCEPT !.config = r.config,
                                       !.attrs = ALL_ATTRS,
                                       !.errors = <<>>,
                                       !.warnings = <<>>,
                                       !.pc = "constructed"]
                    ELSE [other EXCEPT !.attrs = {"data"},
                                       !.pc = "raised",
                                       !.exc = r.exc,
                                       !.raisedIn = "__init__"]
    /\ UNCHANGED <<data, cfgFile, attrs, config, errors, warnings, pc, exc,
                   raisedIn, ran, result, calls, returned, cli>>

OtherValidateBegin ==
    /\ other.pc \in {"constructed", "returned"}
    /\ other.calls < MaxCalls
    /\ other' = [other EXCEPT !.errors = <<>>,
                              !.warnings = <<>>,
                              !.ran = <<>>,
                              !.pc = GROUPS[1]]
    /\ UNCHANGED <<data, cfgFile, attrs, config, errors, warnings, pc, exc,
                   raisedIn, ran, result, calls, returned, cli>>

\* OtherRunGroup with one accumulator pair shared by the two instances
OtherRunGroup_shared_accumulators(k, r) ==
    /\ other.pc = GROUPS[k]
    /\ errors' = errors \o r.e
    /\ warnings' = warnings \o r.w
    /\ other' = IF r.exc = "none"
                THEN [other EXCEPT !.ran = Append(@, GROUPS[k]),
                                   !.errors = errors',
                                   !.warnings = warnings',
                                   !.pc = IF k < Len(GROUPS)
                                          THEN GROUPS[k + 1] ELSE "convert"]
                ELSE [other EXCEPT !.ran = Append(@, GROUPS[k]),
                                   !.errors = errors',
                                   !.warnings = warnings',
                                   !.pc = "raised",
                                   !.exc = r.exc,
                                   !.raisedIn = GROUPS[k]]
    /\ UNCHANGED <<data, cfgFile, attrs, config, pc, exc, raisedIn, ran,
                   result, calls, returned, cli>>

OtherRunGroup(k, r) ==
    /\ other.pc = GROUPS[k]
    /\ other' = IF r.exc = "none"
                THEN [other EXCEPT !.ran = Append(@, GROUPS[k]),
                                   !.errors = @ \o r.e,
                                   !.warnings = @ \o r.w,
                                   !.pc = IF k < Len(GROUPS)
                                          THEN GROUPS[k + 1] ELSE "convert"]
                ELSE [other EXCEPT !.ran = Append(@, GROUPS[k]),
                                   !.errors = @ \o r.e,
                                   !.warnings = @ \o r.w,
                                   !.pc = "raised",
                                   !.exc = r.exc,
                                   !.raisedIn = GROUPS[k]]
    /\ UNCHANGED <<data, cfgFile, attrs, config, errors, warnings, pc, exc,
                   raisedIn, ran, result, calls, returned, cli>>

OtherValidateRequiredSheets == OtherRunGroup(1, validate_required_sheets(data))
OtherValidateIpSheet == OtherRunGroup(2, validate_ip_sheet(data, other.config))
OtherValidateRadio4gSheet ==
    OtherRunGroup(3, validate_radio_4g_sheet(data, other.config))
OtherValidateRadio5gSheet == OtherRunGroup(4, validate_radio_5g_sheet(data))
OtherValidateMappingSheet == OtherRunGroup(5, validate_mapping_sheet(data))
OtherValidateConfigReferences ==
    OtherRunGroup(6, validate_config_references(other.config))

OtherValidateReturn ==
    /\ other.pc = "convert"
    /\ LET rendered ==
              [errors |-> [i \in 1..Len(other.errors) |->
                              Render(other.errors[i])],
               warnings |-> [i \in 1..Len(other.warnings) |->
                                Render(other.warnings[i])]]
       IN  other' = [other EXCEPT !.result = rendered,
                                  !.returned = Append(@, rendered),
                                  !.calls = @ + 1,
                                  !.pc = "returned"]
    /\ UNCHANGED <<data, cfgFile, attrs, config, errors, warnings, pc, exc,
                   raisedIn, ran, result, calls, returned, cli>>

\* the inputs of the two instances: one cell of the valid TableSet replaced,
\* with or without the Mapping sheet, a config with or without the version;
\* or a config resource that cannot be loaded
CONCURRENT_CELLS == CROSS_CELLS \cup {<<"IP", "MME", Txt(MME2_MME2)>>}

ConcInit ==
    /\ \/ \E cell \in CONCURRENT_CELLS,
             mapping \in {<<"absent", {}>>, <<"present", {}>>},
             c \in {BaseConfig, [BaseConfig EXCEPT !.SPU = <<OtherVersion>>]} :
              InstanceInit(DataCross(cell, mapping), LoadedFile(c))
       \/ InstanceInit(BaseData, FailedFile("FileNotFoundError"))
    /\ other = OtherNew
    /\ cli = NoCommand

ConcNext ==
    \/ Construct
    \/ ValidateBegin
    \/ ValidateRequiredSheets
    \/ ValidateIpSheet
    \/ ValidateRadio4gSheet
    \/ ValidateRadio5gSheet
    \/ ValidateMappingSheet
    \/ ValidateConfigReferences
    \/ ValidateReturn
    \/ OtherConstruct
    \/ OtherValidateBegin
    \/ OtherValidateRequiredSheets
    \/ OtherValidateIpSheet
    \/ OtherValidateRadio4gSheet
    \/ OtherValidateRadio5gSheet
    \/ OtherValidateMappingSheet
    \/ OtherValidateConfigReferences
    \/ OtherValidateReturn

ConcSpec == ConcInit /\ [][ConcNext]_vars

----------------------------------------------------------------------------
(* C22: all validate() calls on the same unmodified TableSet and config,
   made on one instance or on two, return the same ordered error list and
   the same ordered warning list; the findings of an earlier call are not in
   the lists of a later one. *)
AllReturned == returned \o other.returned

C22_Idempotence ==
    /\ \A i, j \in 1..Len(AllReturned) : AllReturned[i] = AllReturned[j]
    /\ pc = "returned" =>
          /\ Len(result.errors) = Len(Produced.e)
          /\ Len(result.warnings) = Len(Produced.w)

\* the first instance has returned twice and the second once, with errors
\* and warnings in the lists
C22_Witness ==
    /\ Len(returned) >= 2
    /\ Len(other.returned) >= 1
    /\ Len(returned[1].errors) > 0
    /\ Len(returned[1].warnings) > 0
    /\ returned[2] = returned[1]
    /\ other.returned[1] = returned[1]

----------------------------------------------------------------------------
(* C27: two validation passes running at the same time on two instances over
   the same unmodified inputs do not interfere: whatever the interleaving,
   each call returns the lists, or raises the exception, that a pass run
   alone on these inputs gives, and each instance's accumulators hold only
   its own findings. *)

\* what a pass run alone does with the loaded config c
ProducedWith(c) ==
    Chain(<<validate_required_sheets(data), validate_ip_sheet(data, c),
            validate_radio_4g_sheet(data, c), validate_radio_5g_sheet(data),
            validate_mapping_sheet(data), validate_config_references(c)>>)

AloneResult(c) ==
    LET p == ProducedWith(c)
    IN  [errors |-> [i \in 1..Len(p.e) |-> Render(p.e[i])],
         warnings |-> [i \in 1..Len(p.w) |-> Render(p.w[i])]]

\* the instance (record of its attributes and position) is where a pass run
\* alone would be
AsAlone(inst) ==
    /\ \A k \in 1..Len(inst.returned) :
          inst.returned[k] = AloneResult(inst.config)
    /\ inst.pc = "returned" =>
          /\ ProducedWith(inst.config).exc = "none"
          /\ inst.errors = ProducedWith(inst.config).e
          /\ inst.warnings = ProducedWith(inst.config).w
    /\ (inst.pc = "raised" /\ inst.raisedIn \in Range(GROUPS)) =>
          /\ ProducedWith(inst.config).exc = inst.exc
          /\ inst.errors = ProducedWith(inst.config).e
          /\ inst.warnings = ProducedWith(inst.config).w
    /\ inst.pc \in Range(GROUPS) \cup {"convert"} =>
          /\ Len(inst.errors) <= Len(ProducedWith(inst.config).e)
          /\ Len(inst.warnings) <= Len(ProducedWith(inst.config).w)
          /\ inst.errors
                = SubSeq(ProducedWith(inst.config).e, 1, Len(inst.errors))
          /\ inst.warnings
                = SubSeq(ProducedWith(inst.config).w, 1, Len(inst.warnings))

First ==
    [attrs |-> attrs, config |-> config, errors |-> errors,
     warnings |-> warnings, pc |-> pc, exc |-> exc, raisedIn |-> raisedIn,
     ran |-> ran, result |-> result, calls |-> calls, returned |-> returned]

C27_NoInterference == AsAlone(First) /\ AsAlone(other)

\* both instances are in the middle of a pass, at different rule groups, with
\* findings in both accumulator pairs, after each has returned once
C27_Witness ==
    /\ pc = GROUPS[3]
    /\ other.pc = GROUPS[5]
    /\ Len(returned) = 1
    /\ Len(other.returned) = 1
    /\ Len(warnings) > 0
    /\ Len(other.warnings) > Len(warnings)

----------------------------------------------------------------------------
(* The commands of cli.py that run the validator: `validate` (with --strict)
   and `generate` (with --validate/--no-validate). cli is the command's
   record: its options, its position, whether it prompted, whether the user
   confirmed, whether processing started, its exit status and what ended it.
   The spreadsheet reader and the processor are not part of the validator:
   reading gives the TableSet of the initial state or fails, processing
   succeeds or fails. *)
COMMANDS ==
    {[NoCommand EXCEPT !.command = "validate", !.strict = s, !.pc = "start"] :
        s \in BOOLEAN}
    \cup
    {[NoCommand EXCEPT !.command = "generate", !.validate = v, !.pc = "start"] :
        v \in BOOLEAN}

\* sys.exit(1) from the except branch, or click.Abort leaving the command
Exit(status, cause) == [cli EXCEPT !.pc = "done", !.status = status, !.cause = cause]

\* excel_handler.read_input_file(input_file)
CliReadInput ==
    /\ cli.pc = "start"
    /\ \E ok \in BOOLEAN :
          cli' = IF ~ok THEN Exit("1", "read")
                 ELSE IF cli.command = "generate" /\ ~cli.validate
                 THEN [cli EXCEPT !.pc = "process"]
                 ELSE [cli EXCEPT !.pc = "validating"]
    /\ UNCHANGED <<data, cfgFile, attrs, config, errors, warnings, pc, exc,
                   raisedIn, ran, result, calls, returned, other>>

\* validator = CDDValidator(data, get_config_path())
CliConstruct == cli.pc = "validating" /\ Construct

\* errors, warnings = validator.validate()
CliValidateBegin == cli.pc = "validating" /\ calls = 0 /\ ValidateBegin
CliValidateRequiredSheets == cli.pc = "validating" /\ ValidateRequiredSheets
CliValidateIpSheet == cli.pc = "validating" /\ ValidateIpSheet
CliValidateRadio4gSheet == cli.pc = "validating" /\ ValidateRadio4gSheet
CliValidateRadio5gSheet == cli.pc = "validating" /\ ValidateRadio5gSheet
CliValidateMappingSheet == cli.pc = "validating" /\ ValidateMappingSheet
CliValidateConfigReferences ==
    cli.pc = "validating" /\ ValidateConfigReferences
CliValidateReturn == cli.pc = "validating" /\ ValidateReturn

\* validate command: the final status, or the except branch when the
\* constructor or validate() raised
CliValidateVerdict ==
    /\ cli.command = "validate"
    /\ cli.pc = "validating"
    /\ pc \in {"returned", "raised"}
    /\ cli' = IF pc = "raised" THEN Exit("1", "engine")
              ELSE IF result.errors # <<>>
                      \/ (cli.strict /\ result.warnings # <<>>)
              THEN Exit("1", "failed")
              ELSE Exit("0", "passed")
    /\ UNCHANGED <<data, cfgFile, attrs, config, errors, warnings, pc, exc,
                   raisedIn, ran, result, calls, returned, other>>

\* CliGenerateGate that goes on to processing without asking
CliGenerateGate_without_prompt ==
    /\ cli.command = "generate"
    /\ cli.pc = "validating"
    /\ pc \in {"returned", "raised"}
    /\ cli' = IF pc = "raised" THEN Exit("1", "engine")
              ELSE [cli EXCEPT !.pc = "process"]
    /\ UNCHANGED <<data, cfgFile, attrs, config, errors, warnings, pc, exc,
                   raisedIn, ran, result, calls, returned, other>>

\* generate command: what follows validator.validate()
CliGenerateGate ==
    /\ cli.command = "generate"
    /\ cli.pc = "validating"
    /\ pc \in {"returned", "raised"}
    /\ cli' = IF pc = "raised" THEN Exit("1", "engine")
              ELSE IF result.errors # <<>>
              THEN [cli EXCEPT !.pc = "confirm", !.prompted = TRUE]
              ELSE [cli EXCEPT !.pc = "process"]
    /\ UNCHANGED <<data, cfgFile, attrs, config, errors, warnings, pc, exc,
                   raisedIn, ran, result, calls, returned, other>>

\* click.confirm('Continue despite errors?'): no raises click.Abort
CliConfirm ==
    /\ cli.pc = "confirm"
    /\ \E answer \in BOOLEAN :
          cli' = IF answer
                 THEN [cli EXCEPT !.pc = "process", !.confirmed = TRUE]
                 ELSE Exit("1", "abort")
    /\ UNCHANGED <<data, cfgFile, attrs, config, errors, warnings, pc, exc,
                   raisedIn, ran, result, calls, returned, other>>

\* processor.set_input_data(data): processing of the input starts
CliProcess ==
    /\ cli.pc = "process"
    /\ cli' = [cli EXCEPT !.pc = "processing", !.processed = TRUE]
    /\ UNCHANGED <<data, cfgFile, attrs, config, errors, warnings, pc, exc,
                   raisedIn, ran, result, calls, returned, other>>

\* processor.process(...) returns the output files or raises
CliProcessEnd ==
    /\ cli.pc = "processing"
    /\ \E ok \in BOOLEAN :
          cli' = IF ok THEN Exit("0", "generated") ELSE Exit("1", "process")
    /\ UNCHANGED <<data, cfgFile, attrs, config, errors, warnings, pc, exc,
                   raisedIn, ran, result, calls, returned, other>>

\* the files the command is run on: the valid TableSet with one cell
\* replaced, with or without the Mapping sheet, with or without the version
\* in the config; or a config resource that cannot be loaded
CliInit ==
    /\ \/ \E cell \in CONCURRENT_CELLS,
             mapping \in {<<"absent", {}>>, <<"present", {}>>},
             c \in {BaseConfig, [BaseConfig EXCEPT !.SPU = <<OtherVersion>>]} :
              InstanceInit(DataCross(cell, mapping), LoadedFile(c))
       \/ InstanceInit(BaseData, FailedFile("FileNotFoundError"))
    /\ other = NoInstance
    /\ cli \in COMMANDS

CliNext ==
    \/ CliReadInput
    \/ CliConstruct
    \/ CliValidateBegin
    \/ CliValidateRequiredSheets
    \/ CliValidateIpSheet
    \/ CliValidateRadio4gSheet
    \/ CliValidateRadio5gSheet
    \/ CliValidateMappingSheet
    \/ CliValidateConfigReferences
    \/ CliValidateReturn
    \/ CliValidateVerdict
    \/ CliGenerateGate
    \/ CliConfirm
    \/ CliProcess
    \/ CliProcessEnd

CliSpec == CliInit /\ [][CliNext]_vars

----------------------------------------------------------------------------
(* C26: the validate command, once it has read its input, exits with status
   1 exactly when the error list of the engine is non-empty, or strict mode
   is on and the warning list is non-empty, and passes otherwise; the lists
   the engine returns are those of a pass without the flag. *)
C26_ValidateVerdict ==
    (cli.command = "validate" /\ cli.pc = "done" /\ cli.cause # "read") =>
        /\ cli.status = "1" <=>
              \/ result.errors # <<>>
              \/ cli.strict /\ result.warnings # <<>>
        /\ cli.status # "1" => cli.status = "0"
        /\ pc = "returned" => result = AloneResult(config)

----------------------------------------------------------------------------
(* C30: in the generate command, processing of the input has started only
   with validation disabled, or after validation returned an empty error
   list, or after it returned errors and the user confirmed; the prompt is
   shown only for a non-empty error list; and a command that ended without
   processing failed to read its input, had the engine raise, or was
   declined at the prompt -- warnings alone never end it. *)
C30_GenerateGate ==
    cli.command = "generate" =>
        /\ cli.processed =>
              \/ ~cli.validate
              \/ pc = "returned" /\ (result.errors = <<>> \/ cli.confirmed)
        /\ cli.prompted =>
              cli.validate /\ pc = "returned" /\ result.errors # <<>>
        /\ cli.confirmed => cli.prompted
        /\ (cli.validate /\ pc = "returned" /\ result.errors # <<>>
               /\ cli.pc \in {"process", "processing"}) => cli.confirmed
        /\ (cli.validate /\ pc = "returned" /\ result.errors = <<>>) =>
              /\ ~cli.prompted
              /\ cli.pc \in {"validating", "process", "processing", "done"}
              /\ cli.pc = "done" => cli.processed
        /\ (~cli.validate /\ cli.pc = "done" /\ cli.cause # "read") =>
              cli.processed /\ ~cli.prompted /\ pc = "new"
        /\ (cli.pc = "done" /\ ~cli.processed) =>
              \/ cli.cause = "read"
              \/ cli.cause = "engine" /\ pc = "raised"
              \/ cli.cause = "abort" /\ cli.prompted /\ result.errors # <<>>

\* processing started after validation returned errors and the user
\* confirmed, the lists holding warnings too
C30_Witness ==
    /\ cli.command = "generate"
    /\ cli.processed
    /\ cli.prompted
    /\ cli.confirmed
    /\ result.errors # <<>>
    /\ result.warnings # <<>>

====
